---- MODULE Spec2Model ----
(***************************************************************************)
(* Three-tier memory pool: ThreadCache (per-thread free lists),            *)
(* CentralCache (one list and spin lock per size class) and PageCache      *)
(* (spans of pages obtained from the OS).                                  *)
(*                                                                         *)
(* Memory is a heap: the first word of a block holds the "next" pointer of *)
(* the intrusive free list it is on, so two lists that share a node are    *)
(* represented as such.  Addresses are byte addresses, NULL is 0.          *)
(***************************************************************************)
EXTENDS Integers, Sequences, FiniteSets, TLC

\* ------------------------------------------------------------------------
\* Program constants
\* ------------------------------------------------------------------------
ALIGNMENT == 8

MAX_BYTES == 256 * 1024

FREE_LIST_SIZE == MAX_BYTES \div ALIGNMENT

SPAN_PAGES == 8

PAGE_SIZE == 4096

NULL == 0

\* `const size_t thread = 64` of shuoReturnThreadCache
SpillThreshold == 64

\* ------------------------------------------------------------------------
\* Bounds of the model
\* ------------------------------------------------------------------------
\* size_t is modelled SizeTBits wide (TLC integers are 32 bit); every list of
\* the model is far shorter than 2^(SizeTBits-1), as every real list is far
\* shorter than 2^63.
SizeTBits == 10

SizeTMod == 2 ^ SizeTBits

\* calls of CentralCache::fetchRange made by the clients
MaxFetch == 2

\* allocate calls that find the class list empty
MaxMiss == 2

\* page runs the OS grants; it refuses every request after them
MaxOsGrants == 1

\* blocks the OS allocator (malloc) can have live
MaxMalloc == 1

\* a client holding at most FreeChoice blocks of a class frees any of them;
\* one holding more frees them in address order
FreeChoice == 2

\* calls the clients of the spill scenario make after a chain was shipped to
\* the CentralCache
MaxAfterShip == 4

\* first page the OS hands out
OSBasePage == 16

\* page counts the clients of the PageCache ask for: 1 .. MaxSpanPages
MaxSpanPages == 3

\* allocate calls a round of the closed workload makes
RoundSize == 3

\* rounds of the closed workload
MaxRounds == 3

\* calls the clients of the PageCache make
MaxSpanCalls == 8

\* page runs the OS grants to the clients of the PageCache
MaxSpanGrants == 2

\* calls of the PageCache made by its clients while other threads are in
\* the CentralCache
MaxLockSpanCalls == 2

\* calls of the CentralCache and of the PageCache made by the threads whose
\* calls are followed to their return
MaxOrderCalls == 4

\* sizeof(1), the size of an int of the build
SizeofInt == 4

\* getBatchNum is applied to the block sizes of classes 0 .. MaxBatchClass
\* and to MAX_BYTES
MaxBatchClass == 520

\* SizeClass is exercised on the sizes 0 .. MaxSizeLow and on the sizes from
\* MAX_BYTES - MaxSizeBack to MAX_BYTES + 1
MaxSizeLow == 40

MaxSizeBack == 17

Threads == {"t1", "t2"}

Min(S) == CHOOSE x \in S : \A y \in S : x <= y

Max(S) == CHOOSE x \in S : \A y \in S : x >= y

\* ------------------------------------------------------------------------
\* SizeClass
\* ------------------------------------------------------------------------
\* variant: the size is always moved to the next multiple of ALIGNMENT
roundUp_Next(bytes) ==
    LET x == bytes + ALIGNMENT
    IN  x - (x % ALIGNMENT)

\* variant: the class is the quotient rounded down
getIndex_Floor(bytes) ==
    LET b == IF bytes > ALIGNMENT THEN bytes ELSE ALIGNMENT
    IN  (b \div ALIGNMENT) - 1

\* (bytes + ALIGNMENT - 1) & ~(ALIGNMENT - 1): clearing the low bits of x is
\* x - x mod ALIGNMENT, ALIGNMENT being a power of two
roundUp(bytes) ==
    LET x == bytes + ALIGNMENT - 1
    IN  x - (x % ALIGNMENT)

getIndex(bytes) ==
    LET b == IF bytes > ALIGNMENT THEN bytes ELSE ALIGNMENT
    IN  ((b + ALIGNMENT - 1) \div ALIGNMENT) - 1

\* request sizes the clients use: an unaligned small size (class 62, blocks
\* of 504 bytes, 65 to a span), an unaligned size of two pages (class 1023,
\* blocks of 8192 bytes, 4 to a span), the largest pooled size and the first
\* size beyond the pool
SmallSize == 63 * ALIGNMENT - 3

MidSize == 2 * PAGE_SIZE - 5

PoolSizes == {ALIGNMENT, SmallSize, MidSize, MAX_BYTES}

\* the two requests for the smallest block
ZeroSizes == {0, ALIGNMENT}

ReqSizes == {MidSize, MAX_BYTES, MAX_BYTES + 1}

Classes == {getIndex(n) : n \in PoolSizes}

\* batchNum arguments the clients pass to fetchRange
BatchNums == {1, SpillThreshold + 1}

\* batchNum arguments of the clients that fetch short chains
SmallBatchNums == {2}

\* ------------------------------------------------------------------------
\* State
\* ------------------------------------------------------------------------
VARIABLES
    mem,              \* heap: address -> next pointer stored there (absent: 0)
    _freeList,        \* ThreadCache::_freeList, per thread and class
    _freeListSize,    \* ThreadCache::_freeListSize, per thread and class
    centralFreeList_, \* CentralCache::centralFreeList_, per class
    locks_,           \* CentralCache::locks_, per class
    mutex_,           \* PageCache::mutex_: the thread that holds it
    FreeSpans_,       \* PageCache::FreeSpans_: page count -> head Span
    SpanMap_,         \* PageCache::SpanMap_: address -> Span
    spans,            \* the Span objects: id -> [PageAddr, sizePages, next]
    osPages,          \* pages the OS has handed out through mmap
    osGrants,         \* mmap calls granted
    mallocLive,       \* pointers malloc has handed out and free has not taken
    held,             \* per thread: the blocks its client holds
    carved,           \* history: blocks fetchRange produced from spans
    stack,            \* history: per thread and class, blocks freed and not re-allocated
    spilled,          \* history: a thread has shipped a chain to the CentralCache
    osRefused,        \* history: the OS has refused a page request
    afterShip,        \* history: calls since a chain was first shipped, up to MaxAfterShip
    misses,           \* history: allocate calls that found the list empty
    fetches,          \* history: fetchRange calls of the clients
    round,            \* history: per thread, its round of the closed workload
    spanCalls,        \* history: calls of the PageCache made by its clients
    call,             \* per thread: the CentralCache call it is in and its place there
    lastOp            \* history: the last call and its result

poolVars == <<mem, _freeList, _freeListSize, centralFreeList_, locks_,
              FreeSpans_, SpanMap_, spans, osPages, osGrants>>

vars == <<mem, _freeList, _freeListSize, centralFreeList_, locks_,
          FreeSpans_, SpanMap_, spans, osPages, osGrants, mallocLive, held,
          carved, stack, spilled, afterShip, osRefused, misses, fetches,
          round, spanCalls, mutex_, call, lastOp>>

\* ------------------------------------------------------------------------
\* The heap and the maps
\* ------------------------------------------------------------------------
\* *reinterpret_cast<void **>(a): pages come zero-filled from mmap
Load(m, a) == IF a \in DOMAIN m THEN m[a] ELSE NULL

\* the heap keeps the non-zero words only
Canon(f) == [x \in {y \in DOMAIN f : f[y] # NULL} |-> f[x]]

\* *reinterpret_cast<void **>(a) = v
Store(m, a, v) ==
    IF v = NULL
    THEN [x \in (DOMAIN m) \ {a} |-> m[x]]
    ELSE [x \in (DOMAIN m) \cup {a} |-> IF x = a THEN v ELSE m[x]]

\* several stores at distinct addresses, upd: address -> value
StoreAll(m, upd) ==
    Canon([x \in (DOMAIN m) \cup (DOMAIN upd) |->
              IF x \in DOMAIN upd THEN upd[x] ELSE m[x]])

MapPut(f, k, v) == [x \in (DOMAIN f) \cup {k} |-> IF x = k THEN v ELSE f[x]]

MapDel(f, k) == [x \in (DOMAIN f) \ {k} |-> f[x]]

EmptyMap == [x \in {} |-> NULL]

\* the nodes a walk from head meets, in order, up to NULL or a node met before
RECURSIVE ChainFrom(_, _, _)
ChainFrom(m, a, seen) ==
    IF a = NULL \/ a \in seen
    THEN <<>>
    ELSE <<a>> \o ChainFrom(m, Load(m, a), seen \cup {a})

ListSeq(m, head) == ChainFrom(m, head, {})

Range(s) == {s[k] : k \in DOMAIN s}

ListSet(m, head) == Range(ListSeq(m, head))

\* a walk from head comes back to a node it has left
RECURSIVE CyclicFrom(_, _, _)
CyclicFrom(m, a, seen) ==
    IF a = NULL THEN FALSE
    ELSE IF a \in seen THEN TRUE
    ELSE CyclicFrom(m, Load(m, a), seen \cup {a})

\* ------------------------------------------------------------------------
\* PageCache
\* ------------------------------------------------------------------------
\* the PageCache and the OS behind it, as one value
PageState == [FreeSpans |-> FreeSpans_, SpanMap |-> SpanMap_, spans |-> spans,
              osPages |-> osPages, osGrants |-> osGrants]

\* variant: MAP_FAILED is not told from an address
systemaAlloc_NoCheck(P, numPages, osOk) == (OSBasePage + P.osPages) * PAGE_SIZE

\* mmap of numPages pages: the run after the last one handed out, or
\* MAP_FAILED (NULL) when the OS refuses
systemaAlloc(P, numPages, osOk) ==
    IF osOk THEN (OSBasePage + P.osPages) * PAGE_SIZE ELSE NULL

\* std::map::lower_bound: the smallest key >= k, NULL for end()
LowerBound(fs, k) ==
    LET ks == {x \in DOMAIN fs : x >= k}
    IN  IF ks = {} THEN NULL ELSE Min(ks)

\* new Span: an object no live Span occupies (the lowest such)
NewSpanId(sp) == Min((1 .. (Cardinality(DOMAIN sp) + 1)) \ DOMAIN sp)

\* variant: the remainder starts where the taken span starts
Remainder_AtBase(sp, numPages, fs1) ==
    LET rest == sp.sizePages - numPages
    IN  [PageAddr  |-> sp.PageAddr,
         sizePages |-> rest,
         next      |-> IF rest \in DOMAIN fs1 THEN fs1[rest] ELSE NULL]

\* the Span allocateSpan creates for the pages of sp beyond numPages, linked
\* in front of the list fs1 has for its page count
Remainder(sp, numPages, fs1) ==
    LET rest == sp.sizePages - numPages
    IN  [PageAddr  |-> sp.PageAddr + numPages * PAGE_SIZE,
         sizePages |-> rest,
         next      |-> IF rest \in DOMAIN fs1 THEN fs1[rest] ELSE NULL]

\* PageCache::allocateSpan.  ret is the address returned; asked tells whether
\* the OS was called; fault tells that a null Span pointer was dereferenced.
allocateSpan(P, numPages, osOk) ==
    LET key == LowerBound(P.FreeSpans, numPages)
    IN  IF key # NULL
        THEN LET span == P.FreeSpans[key]
             IN  IF span = NULL
                 THEN [ret |-> NULL, P |-> P, asked |-> FALSE, fault |-> TRUE]
                 ELSE
                 LET sp   == P.spans[span]
                     fs1  == IF sp.next # NULL
                             THEN [P.FreeSpans EXCEPT ![key] = sp.next]
                             ELSE MapDel(P.FreeSpans, key)
                     split == sp.sizePages > numPages
                     newId == NewSpanId(P.spans)
                     rest  == sp.sizePages - numPages
                     newSpan == Remainder(sp, numPages, fs1)
                     fs2  == IF split THEN MapPut(fs1, rest, newId) ELSE fs1
                     sp2  == IF split
                             THEN MapPut([P.spans EXCEPT ![span].sizePages = numPages],
                                         newId, newSpan)
                             ELSE P.spans
                 IN  [ret |-> sp.PageAddr,
                      P |-> [P EXCEPT !.FreeSpans = fs2,
                                      !.spans = sp2,
                                      !.SpanMap = MapPut(P.SpanMap, sp.PageAddr, span)],
                      asked |-> FALSE, fault |-> FALSE]
        ELSE LET memory == systemaAlloc(P, numPages, osOk)
                 id == NewSpanId(P.spans)
             IN  IF memory = NULL
                 THEN [ret |-> NULL, P |-> P, asked |-> TRUE, fault |-> FALSE]
                 ELSE [ret |-> memory,
                       P |-> [P EXCEPT
                                !.spans = MapPut(P.spans, id,
                                            [PageAddr |-> memory,
                                             sizePages |-> numPages,
                                             next |-> NULL]),
                                !.SpanMap = MapPut(P.SpanMap, memory, id),
                                !.osPages = P.osPages + numPages,
                                !.osGrants = P.osGrants + 1],
                       asked |-> TRUE, fault |-> FALSE]

\* the walk of deallocateSpan along a free list: the Span whose next is
\* target, NULL when the list ends first
RECURSIVE FindPrev(_, _, _)
FindPrev(sp, prev, target) ==
    IF sp[prev].next = NULL THEN NULL
    ELSE IF sp[prev].next = target THEN prev
    ELSE FindPrev(sp, sp[prev].next, target)

\* variant: the record of the merged successor stays in SpanMap_ and its
\* Span object is kept
Coalesce_KeepRecord(P, span, nextAddr) ==
    IF nextAddr \notin DOMAIN P.SpanMap
    THEN P
    ELSE LET nextSpan == P.SpanMap[nextAddr]
             nsz == P.spans[nextSpan].sizePages
             fs0 == IF nsz \in DOMAIN P.FreeSpans THEN P.FreeSpans
                    ELSE MapPut(P.FreeSpans, nsz, NULL)
             NextList == fs0[nsz]
             isHead == NextList = nextSpan
             prev == IF isHead \/ NextList = NULL THEN NULL
                     ELSE FindPrev(P.spans, NextList, nextSpan)
             found == isHead \/ prev # NULL
             fs1 == IF isHead THEN [fs0 EXCEPT ![nsz] = P.spans[nextSpan].next]
                    ELSE fs0
             sp1 == IF prev # NULL
                    THEN [P.spans EXCEPT ![prev].next = P.spans[nextSpan].next]
                    ELSE P.spans
         IN  IF found
             THEN [P EXCEPT !.FreeSpans = fs1,
                            !.spans = [sp1 EXCEPT ![span].sizePages = @ + nsz]]
             ELSE [P EXCEPT !.FreeSpans = fs1]

\* variant: the successor is merged whether or not it is found on its list
Coalesce_Unconditional(P, span, nextAddr) ==
    IF nextAddr \notin DOMAIN P.SpanMap
    THEN P
    ELSE LET nextSpan == P.SpanMap[nextAddr]
             nsz == P.spans[nextSpan].sizePages
             fs0 == IF nsz \in DOMAIN P.FreeSpans THEN P.FreeSpans
                    ELSE MapPut(P.FreeSpans, nsz, NULL)
             NextList == fs0[nsz]
             isHead == NextList = nextSpan
             prev == IF isHead \/ NextList = NULL THEN NULL
                     ELSE FindPrev(P.spans, NextList, nextSpan)
             fs1 == IF isHead THEN [fs0 EXCEPT ![nsz] = P.spans[nextSpan].next]
                    ELSE fs0
             sp1 == IF prev # NULL
                    THEN [P.spans EXCEPT ![prev].next = P.spans[nextSpan].next]
                    ELSE P.spans
         IN  [P EXCEPT !.FreeSpans = fs1,
                       !.spans = MapDel([sp1 EXCEPT ![span].sizePages = @ + nsz],
                                        nextSpan),
                       !.SpanMap = MapDel(P.SpanMap, nextAddr)]

\* PageCache::deallocateSpan, the merge with the span recorded at nextAddr:
\* FreeSpans_[nextSpan->sizePages] inserts a null head when the key is
\* absent; the successor is merged only when it is found on that list
Coalesce(P, span, nextAddr) ==
    IF nextAddr \notin DOMAIN P.SpanMap
    THEN P
    ELSE LET nextSpan == P.SpanMap[nextAddr]
             nsz == P.spans[nextSpan].sizePages
             fs0 == IF nsz \in DOMAIN P.FreeSpans THEN P.FreeSpans
                    ELSE MapPut(P.FreeSpans, nsz, NULL)
             NextList == fs0[nsz]
             isHead == NextList = nextSpan
             prev == IF isHead \/ NextList = NULL THEN NULL
                     ELSE FindPrev(P.spans, NextList, nextSpan)
             found == isHead \/ prev # NULL
             fs1 == IF isHead THEN [fs0 EXCEPT ![nsz] = P.spans[nextSpan].next]
                    ELSE fs0
             sp1 == IF prev # NULL
                    THEN [P.spans EXCEPT ![prev].next = P.spans[nextSpan].next]
                    ELSE P.spans
         IN  IF found
             THEN [P EXCEPT !.FreeSpans = fs1,
                            !.spans = MapDel([sp1 EXCEPT ![span].sizePages = @ + nsz],
                                             nextSpan),
                            !.SpanMap = MapDel(P.SpanMap, nextAddr)]
             ELSE [P EXCEPT !.FreeSpans = fs1]

\* variant: the freed span's record is erased from SpanMap_
InsertFree_Erase(P, span) ==
    LET size == P.spans[span].sizePages
        list == IF size \in DOMAIN P.FreeSpans THEN P.FreeSpans[size] ELSE NULL
    IN  [P EXCEPT !.spans = [P.spans EXCEPT ![span].next = list],
                  !.FreeSpans = MapPut(P.FreeSpans, size, span),
                  !.SpanMap = MapDel(P.SpanMap, P.spans[span].PageAddr)]

\* variant: the freed span becomes the only span of its list
InsertFree_DropTail(P, span) ==
    LET size == P.spans[span].sizePages
    IN  [P EXCEPT !.spans = [P.spans EXCEPT ![span].next = NULL],
                  !.FreeSpans = MapPut(P.FreeSpans, size, span)]

\* PageCache::deallocateSpan, the head insertion into FreeSpans_[sizePages]
InsertFree(P, span) ==
    LET size == P.spans[span].sizePages
        list == IF size \in DOMAIN P.FreeSpans THEN P.FreeSpans[size] ELSE NULL
    IN  [P EXCEPT !.spans = [P.spans EXCEPT ![span].next = list],
                  !.FreeSpans = MapPut(P.FreeSpans, size, span)]

\* variant: the span is put on its list before the merge with the successor
deallocateSpan_InsertFirst(P, ptr, numPages) ==
    IF ptr \notin DOMAIN P.SpanMap
    THEN P
    ELSE LET span == P.SpanMap[ptr]
         IN  Coalesce(InsertFree(P, span), span, ptr + numPages * PAGE_SIZE)

\* PageCache::deallocateSpan
deallocateSpan(P, ptr, numPages) ==
    IF ptr \notin DOMAIN P.SpanMap
    THEN P
    ELSE LET span == P.SpanMap[ptr]
         IN  InsertFree(Coalesce(P, span, ptr + numPages * PAGE_SIZE), span)

\* ------------------------------------------------------------------------
\* CentralCache
\* ------------------------------------------------------------------------
\* CentralCache::fetchFromPageCache: Size_Index counts pages, and is compared
\* with SPAN_PAGES * PAGE_SIZE
fetchFromPageCache(P, size, osOk) ==
    LET Size_Index == (size + PAGE_SIZE - 1) \div PAGE_SIZE
    IN  IF Size_Index <= SPAN_PAGES * PAGE_SIZE
        THEN allocateSpan(P, SPAN_PAGES, osOk)
        ELSE allocateSpan(P, Size_Index, osOk)

\* the links fetchRange writes into a new span: blocks [from, to) of the span
\* chained in address order, the last one to NULL; nothing when from >= to
LinkRun(start, size, from, to) ==
    [a \in {start + k * size : k \in from .. (to - 1)} |->
        IF a = start + (to - 1) * size THEN NULL ELSE a + size]

\* CentralCache::fetchRange with the class lock held: the class list is empty
fetchRangeEmpty(m, central, P, index, batchNum, osOk) ==
    LET size == (index + 1) * ALIGNMENT
        got  == fetchFromPageCache(P, size, osOk)
        start == got.ret
        totalBlocks == (SPAN_PAGES * PAGE_SIZE) \div size
        allocBlocks == IF batchNum < totalBlocks THEN batchNum ELSE totalBlocks
        m1 == IF allocBlocks > 1
              THEN StoreAll(m, LinkRun(start, size, 0, allocBlocks))
              ELSE m
        m2 == IF totalBlocks > allocBlocks
              THEN StoreAll(m1, LinkRun(start, size, allocBlocks, totalBlocks))
              ELSE m1
        span == got.P.spans[got.P.SpanMap[start]]
    IN  IF start = NULL
        THEN [ret |-> NULL, mem |-> m, central |-> central, P |-> got.P,
              carved |-> {}, asked |-> got.asked, fault |-> got.fault]
        ELSE [ret |-> start, mem |-> m2,
              central |-> IF totalBlocks > allocBlocks
                          THEN [central EXCEPT ![index] = start + allocBlocks * size]
                          ELSE central,
              P |-> got.P,
              carved |-> {[addr |-> a, size |-> size, base |-> span.PageAddr,
                           pages |-> span.sizePages] :
                          a \in {start} \cup
                                {start + k * size : k \in 0 .. (totalBlocks - 1)}},
              asked |-> got.asked, fault |-> FALSE]

\* the walk of fetchRange over a non-empty class list: after at most batchNum
\* steps, <<prev, current>>
RECURSIVE FetchWalk(_, _, _, _)
FetchWalk(m, prev, current, left) ==
    IF current = NULL \/ left = 0
    THEN <<prev, current>>
    ELSE FetchWalk(m, current, Load(m, current), left - 1)

\* variant: the chain taken is not cut from the blocks that stay
fetchRangeList_NoCut(m, central, P, index, batchNum) ==
    LET result == central[index]
        w == FetchWalk(m, NULL, result, batchNum)
        current == w[2]
    IN  [ret |-> result,
         mem |-> m,
         central |-> [central EXCEPT ![index] = current],
         P |-> P, carved |-> {}, asked |-> FALSE, fault |-> FALSE]

\* CentralCache::fetchRange with the class lock held: the class list has blocks
fetchRangeList(m, central, P, index, batchNum) ==
    LET result == central[index]
        w == FetchWalk(m, NULL, result, batchNum)
        prev == w[1]
        current == w[2]
    IN  [ret |-> result,
         mem |-> IF prev # NULL THEN Store(m, prev, NULL) ELSE m,
         central |-> [central EXCEPT ![index] = current],
         P |-> P, carved |-> {}, asked |-> FALSE, fault |-> FALSE]

\* CentralCache::fetchRange, from test_and_set to clear
fetchRange(m, central, P, index, batchNum, osOk) ==
    IF index >= FREE_LIST_SIZE \/ batchNum = 0
    THEN [ret |-> NULL, mem |-> m, central |-> central, P |-> P,
          carved |-> {}, asked |-> FALSE, fault |-> FALSE]
    ELSE IF central[index] = NULL
         THEN fetchRangeEmpty(m, central, P, index, batchNum, osOk)
         ELSE fetchRangeList(m, central, P, index, batchNum)

\* the walk of returnRange to the last node of the incoming chain
RECURSIVE ReturnWalk(_, _, _, _)
ReturnWalk(m, end, count, size) ==
    IF Load(m, end) # NULL /\ count < size
    THEN ReturnWalk(m, Load(m, end), count + 1, size)
    ELSE end

\* CentralCache::returnRange, from test_and_set to clear
returnRange(m, central, ptr, size, index) ==
    IF ptr = NULL \/ index >= FREE_LIST_SIZE
    THEN [mem |-> m, central |-> central]
    ELSE LET end == ReturnWalk(m, ptr, 1, size)
             current == central[index]
         IN  [mem |-> Store(m, end, current),
              central |-> [central EXCEPT ![index] = ptr]]

\* ------------------------------------------------------------------------
\* ThreadCache
\* ------------------------------------------------------------------------
\* size_t arithmetic
Inc(c) == (c + 1) % SizeTMod

Dec(c) == (c + SizeTMod - 1) % SizeTMod

\* variant: a request of exactly MAX_BYTES is sent to malloc / free as well
IsLarge_AtLimit(size) == size >= MAX_BYTES

\* `size > MAX_BYTES`: the request goes to malloc / free
IsLarge(size) == size > MAX_BYTES

\* ThreadCache::getBatchNum: the last line takes the maximum with sizeof(1)
getBatchNum(size) ==
    LET MAX_BATCH_SIZE == 4 * 1024
        baseNum == IF size <= 32 THEN 64
                   ELSE IF size <= 64 THEN 32
                   ELSE IF size <= 128 THEN 16
                   ELSE IF size <= 256 THEN 8
                   ELSE IF size <= 512 THEN 4
                   ELSE IF size <= 1024 THEN 2
                   ELSE 1
        maxNum == Max({1, MAX_BATCH_SIZE \div size})
    IN  Max({SizeofInt, Min({maxNum, baseNum})})

\* ThreadCache::allocate below MAX_BYTES, on one thread's arrays
allocatePool(m, fl, fls, size) ==
    LET index == getIndex(size)
        ptr == fl[index]
    IN  [ret |-> ptr,
         fl  |-> IF ptr # NULL THEN [fl EXCEPT ![index] = Load(m, ptr)] ELSE fl,
         fls |-> [fls EXCEPT ![index] = Dec(fls[index])]]

\* ThreadCache::shuoReturnThreadCache
shuoReturnThreadCache(fls, index) == fls[index] > SpillThreshold

\* the loop of returnThreadCache: steps more links from splitNode, NULL when
\* the list ends first
RECURSIVE SplitWalk(_, _, _)
SplitWalk(m, splitNode, steps) ==
    IF steps = 0 THEN splitNode
    ELSE LET nx == Load(m, splitNode)
         IN  IF nx = NULL THEN NULL ELSE SplitWalk(m, nx, steps - 1)

\* ThreadCache::returnThreadCache; shipped is the chain given to returnRange
returnThreadCache(m, fl, fls, central, ptr, size) ==
    LET index == getIndex(size)
        batchNum == fls[index]
        half == batchNum \div 2
        RetainNum == IF half > 1 THEN half ELSE 1
        FreesizeNum == batchNum - RetainNum
        splitNode == SplitWalk(m, ptr, RetainNum - 1)
        nextNode == Load(m, splitNode)
        m1 == Store(m, splitNode, NULL)
        back == returnRange(m1, central, nextNode, FreesizeNum, index)
        same == [mem |-> m, fl |-> fl, fls |-> fls, central |-> central,
                 shipped |-> <<>>]
    IN  IF batchNum <= 1 THEN same
        ELSE IF splitNode = NULL THEN same
        ELSE IF RetainNum > 0 /\ nextNode # NULL
             THEN [mem |-> back.mem,
                   fl |-> [fl EXCEPT ![index] = nextNode],
                   fls |-> [fls EXCEPT ![index] = RetainNum],
                   central |-> back.central,
                   shipped |-> ListSeq(m1, nextNode)]
             ELSE [mem |-> m1,
                   fl |-> [fl EXCEPT ![index] = nextNode],
                   fls |-> [fls EXCEPT ![index] = RetainNum],
                   central |-> central,
                   shipped |-> <<>>]


\* variant: the freed block is linked in behind the current head instead of
\* becoming the head
pushFree_BehindHead(m, fl, fls, ptr, index) ==
    LET head == fl[index]
    IN  IF head = NULL
        THEN [mem |-> Store(m, ptr, NULL),
              fl  |-> [fl EXCEPT ![index] = ptr],
              fls |-> [fls EXCEPT ![index] = Inc(fls[index])]]
        ELSE [mem |-> Store(Store(m, ptr, Load(m, head)), head, ptr),
              fl  |-> fl,
              fls |-> [fls EXCEPT ![index] = Inc(fls[index])]]

\* the push of ThreadCache::deallocate
pushFree(m, fl, fls, ptr, index) ==
    [mem |-> Store(m, ptr, fl[index]),
     fl  |-> [fl EXCEPT ![index] = ptr],
     fls |-> [fls EXCEPT ![index] = Inc(fls[index])]]

\* ThreadCache::deallocate below MAX_BYTES, on one thread's arrays
deallocatePool(m, fl, fls, central, ptr, size) ==
    LET index == getIndex(size)
        pu == pushFree(m, fl, fls, ptr, index)
        spill == shuoReturnThreadCache(pu.fls, index)
        rt == returnThreadCache(pu.mem, pu.fl, pu.fls, central, ptr, size)
    IN  IF spill
        THEN [mem |-> rt.mem, fl |-> rt.fl, fls |-> rt.fls,
              central |-> rt.central, spill |-> TRUE,
              before |-> ListSeq(pu.mem, ptr), shipped |-> rt.shipped]
        ELSE [mem |-> pu.mem, fl |-> pu.fl, fls |-> pu.fls,
              central |-> central, spill |-> FALSE,
              before |-> <<>>, shipped |-> <<>>]

\* ------------------------------------------------------------------------
\* The OS allocator and the clients
\* ------------------------------------------------------------------------
\* malloc hands out addresses far from the pages of the pool
MallocBase == 1024 * MAX_BYTES

MallocAddr(k) == MallocBase + k * 2 * MAX_BYTES

\* malloc(size): a block not live, NULL when the OS allocator is exhausted
malloc(live) ==
    LET free == {k \in 0 .. (MaxMalloc - 1) : MallocAddr(k) \notin live}
    IN  IF free = {} THEN NULL ELSE MallocAddr(Min(free))

\* the class recorded for a block of the OS allocator
OsClass == FREE_LIST_SIZE

\* a block in a client's hands: its address, its class and the call it came from
Held(ptr, cls, via) == [ptr |-> ptr, cls |-> cls, via |-> via]

\* pointers some allocate call returned and no deallocate call has taken
Allocated == {b.ptr : b \in {h \in UNION {held[t] : t \in Threads} :
                                  h.via = "allocate"}}

\* the blocks of thread t a client may free next
FreeCandidates(t) ==
    UNION {LET same == {h \in held[t] : h.cls = c}
           IN  IF Cardinality(same) <= FreeChoice THEN same
               ELSE {h \in same : h.ptr = Min({x.ptr : x \in same})} :
           c \in Classes \cup {OsClass}}

\* one more call after the first shipment
Tick == IF spilled /\ afterShip < MaxAfterShip THEN afterShip + 1 ELSE afterShip

Op(op, t, n, ret) ==
    [op |-> op, t |-> t, n |-> n, ret |-> ret, dup |-> FALSE, expect |-> NULL,
     wasEmpty |-> FALSE, spill |-> FALSE, before |-> <<>>, shipped |-> <<>>]

\* a thread's place in the closed workload: before the rounds ("warm"), or in
\* round no with left allocate calls to make ("alloc") or freeing what the
\* round obtained ("free"); pages is the OS page count when round 1 ended
Round(no, phase, left, pages) ==
    [no |-> no, phase |-> phase, left |-> left, pages |-> pages]

\* the history of blocks freed and not re-allocated, after ptr is allocated
Unstack(st, ptr) ==
    IF st # <<>> /\ Head(st) = ptr THEN Tail(st)
    ELSE SelectSeq(st, LAMBDA x : x # ptr)

\* std::mutex not held
NoThread == "none"

\* a thread's place in a call of the CentralCache: the function, the place
\* ("idle": in no call; "spin": at the test_and_set loop; "locked": behind
\* it; "mutex": at the lock_guard of the PageCache; "span": behind it;
\* "unlock", "fail", "catch": at the clear of the normal path, of the null
\* return and of the catch block), the arguments and the result so far
Call(op, pc, index, n, ptr, ret) ==
    [op |-> op, pc |-> pc, index |-> index, n |-> n, ptr |-> ptr, ret |-> ret]

Idle == Call("none", "idle", 0, 0, NULL, NULL)

\* ------------------------------------------------------------------------
\* Initial state: the thread_local ThreadCache objects are zero-initialised,
\* CentralCache() nulls every head and clears every lock, the maps are empty
\* ------------------------------------------------------------------------
InitPool ==
    /\ mem = EmptyMap
    /\ _freeList = [t \in Threads |-> [i \in Classes |-> NULL]]
    /\ _freeListSize = [t \in Threads |-> [i \in Classes |-> 0]]
    /\ centralFreeList_ = [i \in Classes |-> NULL]
    /\ locks_ = [i \in Classes |-> FALSE]
    /\ FreeSpans_ = EmptyMap
    /\ SpanMap_ = EmptyMap
    /\ spans = EmptyMap
    /\ osPages = 0
    /\ osGrants = 0
    /\ mallocLive = {}
    /\ held = [t \in Threads |-> {}]
    /\ carved = {}
    /\ stack = [t \in Threads |-> [i \in Classes |-> <<>>]]
    /\ spilled = FALSE
    /\ afterShip = 0
    /\ osRefused = FALSE
    /\ misses = 0
    /\ fetches = 0
    /\ round = [t \in Threads |-> Round(0, "warm", 0, 0)]
    /\ spanCalls = 0
    /\ mutex_ = NoThread
    /\ call = [t \in Threads |-> Idle]

Init == InitPool /\ lastOp = Op("init", "t1", 0, NULL)

\* ------------------------------------------------------------------------
\* Operations
\* ------------------------------------------------------------------------
\* ThreadCache::allocate(size) on thread t, size > MAX_BYTES
AllocateLarge(t, n) ==
    LET size == IF n = 0 THEN ALIGNMENT ELSE n
        p == malloc(mallocLive)
    IN  /\ IsLarge(size)
        /\ mallocLive' = IF p = NULL THEN mallocLive ELSE mallocLive \cup {p}
        /\ held' = IF p = NULL THEN held
                   ELSE [held EXCEPT ![t] = @ \cup {Held(p, OsClass, "allocate")}]
        /\ lastOp' = [Op("allocate", t, n, p) EXCEPT !.dup = p \in Allocated]
        /\ afterShip' = Tick
        /\ UNCHANGED <<poolVars, carved, stack, spilled, osRefused, misses, fetches>>

\* ThreadCache::allocate(size) on thread t, size <= MAX_BYTES
AllocatePool(t, n) ==
    LET size == IF n = 0 THEN ALIGNMENT ELSE n
        index == getIndex(size)
        r == allocatePool(mem, _freeList[t], _freeListSize[t], size)
    IN  /\ ~IsLarge(size)
        /\ _freeList' = [_freeList EXCEPT ![t] = r.fl]
        /\ _freeListSize' = [_freeListSize EXCEPT ![t] = r.fls]
        /\ held' = IF r.ret = NULL THEN held
                   ELSE [held EXCEPT ![t] = @ \cup {Held(r.ret, index, "allocate")}]
        /\ stack' = IF r.ret = NULL THEN stack
                    ELSE [stack EXCEPT ![t][index] = Unstack(@, r.ret)]
        /\ misses' = IF r.ret = NULL THEN misses + 1 ELSE misses
        /\ afterShip' = Tick
        /\ lastOp' = [Op("allocate", t, n, r.ret) EXCEPT
                        !.dup = r.ret # NULL /\ r.ret \in Allocated,
                        !.expect = IF stack[t][index] = <<>> THEN NULL
                                   ELSE Head(stack[t][index]),
                        !.wasEmpty = _freeList[t][index] = NULL]
        /\ UNCHANGED <<mem, centralFreeList_, locks_, FreeSpans_, SpanMap_, spans,
                       osPages, osGrants, mallocLive, carved, spilled, osRefused,
                       fetches>>

Allocate(t, n) == AllocateLarge(t, n) \/ AllocatePool(t, n)

\* ThreadCache::deallocate(ptr, size) on thread t, size > MAX_BYTES
DeallocateLarge(t, b, n) ==
    /\ IsLarge(n)
    /\ b.cls = OsClass
    /\ mallocLive' = mallocLive \ {b.ptr}
    /\ held' = [held EXCEPT ![t] = @ \ {b}]
    /\ lastOp' = Op("deallocate", t, n, b.ptr)
    /\ afterShip' = Tick
    /\ UNCHANGED <<poolVars, carved, stack, spilled, osRefused, misses, fetches>>

\* ThreadCache::deallocate(ptr, size) on thread t, size <= MAX_BYTES
DeallocatePool(t, b, n) ==
    LET index == getIndex(n)
        r == deallocatePool(mem, _freeList[t], _freeListSize[t],
                            centralFreeList_, b.ptr, n)
    IN  /\ ~IsLarge(n)
        /\ b.cls = index
        /\ ~locks_[index]
        /\ mem' = r.mem
        /\ _freeList' = [_freeList EXCEPT ![t] = r.fl]
        /\ _freeListSize' = [_freeListSize EXCEPT ![t] = r.fls]
        /\ centralFreeList_' = r.central
        /\ locks_' = [locks_ EXCEPT ![index] = FALSE]
        /\ held' = [held EXCEPT ![t] = @ \ {b}]
        /\ stack' = [stack EXCEPT ![t][index] = <<b.ptr>> \o @]
        /\ spilled' = (spilled \/ r.shipped # <<>>)
        /\ afterShip' = Tick
        /\ lastOp' = [Op("deallocate", t, n, b.ptr) EXCEPT
                        !.spill = r.spill, !.before = r.before,
                        !.shipped = r.shipped]
        /\ UNCHANGED <<FreeSpans_, SpanMap_, spans, osPages, osGrants, mallocLive,
                       carved, osRefused, misses, fetches>>

\* the client frees a block it holds, with a size of the block's class
Deallocate(t, n) ==
    \E b \in FreeCandidates(t) : DeallocateLarge(t, b, n) \/ DeallocatePool(t, b, n)

\* CentralCache::fetchRange(index, batchNum) called by the client of thread t,
\* which takes the blocks of the chain returned
FetchRange(t, index, batchNum) ==
    \E osOk \in {osGrants < MaxOsGrants} :
        LET r == fetchRange(mem, centralFreeList_, PageState, index, batchNum, osOk)
        IN  /\ ~locks_[index]
            /\ ~r.fault
            /\ mem' = r.mem
            /\ centralFreeList_' = r.central
            /\ locks_' = [locks_ EXCEPT ![index] = FALSE]
            /\ FreeSpans_' = r.P.FreeSpans
            /\ SpanMap_' = r.P.SpanMap
            /\ spans' = r.P.spans
            /\ osPages' = r.P.osPages
            /\ osGrants' = r.P.osGrants
            /\ held' = [held EXCEPT ![t] = @ \cup
                          {Held(a, index, "fetchRange") : a \in ListSet(r.mem, r.ret)}]
            /\ carved' = carved \cup r.carved
            /\ osRefused' = (osRefused \/ (r.asked /\ r.ret = NULL))
            /\ fetches' = fetches + 1
            /\ afterShip' = Tick
            /\ lastOp' = Op("fetchRange", t, batchNum, r.ret)
            /\ UNCHANGED <<_freeList, _freeListSize, mallocLive, stack, spilled,
                           misses>>

\* everything outside the PageCache, the clients' hands and the call record
PageFrame ==
    /\ UNCHANGED <<mem, _freeList, _freeListSize, centralFreeList_, locks_,
                mallocLive, carved, stack, spilled, afterShip, misses, fetches,
                round, mutex_, call>>
    /\ spanCalls' = spanCalls + 1

\* PageCache::allocateSpan(numPages) called by thread t
AllocateSpan(t, numPages) ==
    \E osOk \in {osGrants < MaxSpanGrants} :
        LET r == allocateSpan(PageState, numPages, osOk)
        IN  /\ ~r.fault
            /\ FreeSpans_' = r.P.FreeSpans
            /\ SpanMap_' = r.P.SpanMap
            /\ spans' = r.P.spans
            /\ osPages' = r.P.osPages
            /\ osGrants' = r.P.osGrants
            /\ held' = IF r.ret = NULL THEN held
                       ELSE [held EXCEPT ![t] = @ \cup
                               {Held(r.ret, numPages, "allocateSpan")}]
            /\ osRefused' = (osRefused \/ (r.asked /\ r.ret = NULL))
            /\ lastOp' = Op("allocateSpan", t, numPages, r.ret)
            /\ PageFrame

\* PageCache::allocateSpan(numPages) reads through the null head of the
\* entry lower_bound selected: the process stops
AllocateSpanFault(t, numPages) ==
    /\ allocateSpan(PageState, numPages, TRUE).fault
    /\ lastOp' = Op("fault", t, numPages, NULL)
    /\ PageFrame
    /\ UNCHANGED <<FreeSpans_, SpanMap_, spans, osPages, osGrants, held, osRefused>>

\* PageCache::deallocateSpan(ptr, numPages) called by thread t with a span it
\* has checked out and the page count it asked for
DeallocateSpan(t, b) ==
    LET P == deallocateSpan(PageState, b.ptr, b.cls)
    IN  /\ b.via = "allocateSpan"
        /\ FreeSpans_' = P.FreeSpans
        /\ SpanMap_' = P.SpanMap
        /\ spans' = P.spans
        /\ held' = [held EXCEPT ![t] = @ \ {b}]
        /\ lastOp' = Op("deallocateSpan", t, b.cls, b.ptr)
        /\ PageFrame
        /\ UNCHANGED <<osPages, osGrants, osRefused>>

\* the client of thread t uses a span it has checked out: it stores a pointer
\* to a later page of the span in the span's first word
WriteSpan(t, b) ==
    /\ b.via = "allocateSpan"
    /\ Load(mem, b.ptr) = NULL
    /\ mem' = Store(mem, b.ptr, b.ptr + PAGE_SIZE)
    /\ lastOp' = Op("write", t, b.cls, b.ptr)
    /\ UNCHANGED <<_freeList, _freeListSize, centralFreeList_, locks_,
                   FreeSpans_, SpanMap_, spans, osPages, osGrants, mallocLive,
                   held, carved, stack, spilled, afterShip, osRefused, misses,
                   fetches, round, spanCalls, mutex_, call>>

\* CentralCache::returnRange(ptr, size, index) called by the client of thread
\* t with a chain it fetched and still holds whole, b being its first block;
\* count is the size argument, which the client is free to choose
ReturnRange(t, b, count) ==
    LET chain == ListSeq(mem, b.ptr)
        mine == {h.ptr : h \in {x \in held[t] : x.cls = b.cls /\ x.via = b.via}}
        r == returnRange(mem, centralFreeList_, b.ptr, count, b.cls)
    IN  /\ b.via = "fetchRange"
        /\ Range(chain) \subseteq mine
        /\ \A p \in mine : Load(mem, p) # b.ptr
        /\ ~locks_[b.cls]
        /\ mem' = r.mem
        /\ centralFreeList_' = r.central
        /\ locks_' = [locks_ EXCEPT ![b.cls] = FALSE]
        /\ held' = [held EXCEPT ![t] = {h \in @ : h.ptr \notin Range(chain)}]
        /\ lastOp' = Op("returnRange", t, count, b.ptr)
        /\ UNCHANGED <<_freeList, _freeListSize, FreeSpans_, SpanMap_, spans,
                       osPages, osGrants, mallocLive, carved, stack, spilled,
                       afterShip, osRefused, misses, fetches, round, spanCalls, mutex_, call>>

\* thread t ends: its thread_local ThreadCache goes away with it (the class
\* has no destructor of its own), and the next thread in this place starts
\* with a zero-initialised one; the blocks' memory is not touched
ThreadExit(t) ==
    /\ _freeList' = [_freeList EXCEPT ![t] = [i \in Classes |-> NULL]]
    /\ _freeListSize' = [_freeListSize EXCEPT ![t] = [i \in Classes |-> 0]]
    /\ stack' = [stack EXCEPT ![t] = [i \in Classes |-> <<>>]]
    /\ lastOp' = Op("exit", t, 0, NULL)
    /\ UNCHANGED <<mem, centralFreeList_, locks_, FreeSpans_, SpanMap_, spans,
                   osPages, osGrants, mallocLive, held, carved, spilled,
                   afterShip, osRefused, misses, fetches, round, spanCalls, mutex_, call>>

\* ------------------------------------------------------------------------
\* The calls of the CentralCache step by step
\* ------------------------------------------------------------------------
\* variant: the test_and_set sets the flag of every class
setLock_All(locks, index) == [i \in DOMAIN locks |-> TRUE]

\* locks_[index].test_and_set(acquire) that finds the flag clear
setLock(locks, index) == [locks EXCEPT ![index] = TRUE]

\* variant: the null return of fetchRange leaves the flag set
clearLock_NotOnFail(locks, index, pc) ==
    IF pc = "fail" THEN locks ELSE [locks EXCEPT ![index] = FALSE]

\* locks_[index].clear(release), at the place pc of the call
clearLock(locks, index, pc) == [locks EXCEPT ![index] = FALSE]

\* what no step of a CentralCache call touches
LockFrame ==
    UNCHANGED <<_freeList, _freeListSize, mallocLive, stack, spilled, afterShip,
                misses, round, spanCalls>>

\* fetchRange(index, batchNum) is called on thread t: the argument check
FetchEnter(t, index, batchNum) ==
    /\ call[t].pc = "idle"
    /\ IF index >= FREE_LIST_SIZE \/ batchNum = 0
       THEN /\ lastOp' = Op("fetchRange", t, batchNum, NULL)
            /\ UNCHANGED call
       ELSE /\ call' = [call EXCEPT ![t] =
                           Call("fetchRange", "spin", index, batchNum, NULL, NULL)]
            /\ UNCHANGED lastOp
    /\ fetches' = fetches + 1
    /\ UNCHANGED <<mem, centralFreeList_, locks_, mutex_, FreeSpans_, SpanMap_,
                   spans, osPages, osGrants, held, carved, osRefused>>
    /\ LockFrame

\* returnRange(ptr, size, index) is called on thread t with a chain its
\* client fetched and holds whole, b being the first block
ReturnEnter(t, b, count) ==
    LET chain == ListSeq(mem, b.ptr)
        mine == {h.ptr : h \in {x \in held[t] : x.cls = b.cls /\ x.via = b.via}}
    IN  /\ call[t].pc = "idle"
        /\ b.via = "fetchRange"
        /\ Range(chain) \subseteq mine
        /\ \A p \in mine : Load(mem, p) # b.ptr
        /\ call' = [call EXCEPT ![t] =
                       Call("returnRange", "spin", b.cls, count, b.ptr, NULL)]
        /\ held' = [held EXCEPT ![t] = {h \in @ : h.ptr \notin Range(chain)}]
        /\ UNCHANGED <<mem, centralFreeList_, locks_, mutex_, FreeSpans_, SpanMap_,
                       spans, osPages, osGrants, carved, osRefused, fetches, lastOp>>
        /\ LockFrame

\* while (locks_[index].test_and_set(acquire)) yield(): the pass that finds
\* the flag clear
Acquire(t) ==
    /\ call[t].pc = "spin"
    /\ ~locks_[call[t].index]
    /\ locks_' = setLock(locks_, call[t].index)
    /\ call' = [call EXCEPT ![t].pc = "locked"]
    /\ UNCHANGED <<mem, centralFreeList_, mutex_, FreeSpans_, SpanMap_, spans,
                   osPages, osGrants, held, carved, osRefused, fetches, lastOp>>
    /\ LockFrame

\* fetchRange behind the lock, the class list has blocks
FetchList(t) ==
    LET c == call[t]
        r == fetchRangeList(mem, centralFreeList_, PageState, c.index, c.n)
    IN  /\ c.op = "fetchRange" /\ c.pc = "locked"
        /\ centralFreeList_[c.index] # NULL
        /\ mem' = r.mem
        /\ centralFreeList_' = r.central
        /\ call' = [call EXCEPT ![t].pc = "unlock", ![t].ret = r.ret]
        /\ UNCHANGED <<locks_, mutex_, FreeSpans_, SpanMap_, spans, osPages,
                       osGrants, held, carved, osRefused, fetches, lastOp>>
        /\ LockFrame

\* fetchRange behind the lock, the class list is empty: allocateSpan is
\* called and waits at its lock_guard
FetchMiss(t) ==
    LET c == call[t]
    IN  /\ c.op = "fetchRange" /\ c.pc = "locked"
        /\ centralFreeList_[c.index] = NULL
        /\ call' = [call EXCEPT ![t].pc = "mutex"]
        /\ UNCHANGED <<mem, centralFreeList_, locks_, mutex_, FreeSpans_, SpanMap_,
                       spans, osPages, osGrants, held, carved, osRefused, fetches,
                       lastOp>>
        /\ LockFrame

\* std::lock_guard<std::mutex> lock(mutex_) gets the mutex
SpanLock(t) ==
    /\ call[t].pc = "mutex"
    /\ mutex_ = NoThread
    /\ mutex_' = t
    /\ call' = [call EXCEPT ![t].pc = "span"]
    /\ UNCHANGED <<mem, centralFreeList_, locks_, FreeSpans_, SpanMap_, spans,
                   osPages, osGrants, held, carved, osRefused, fetches, lastOp>>
    /\ LockFrame

\* allocateSpan returns (the lock_guard lets go of the mutex) and fetchRange
\* carves the span it got, or goes to its null return
FetchSpan(t) ==
    \E osOk \in {osGrants < MaxSpanGrants} :
        LET c == call[t]
            r == fetchRangeEmpty(mem, centralFreeList_, PageState, c.index, c.n, osOk)
        IN  /\ c.op = "fetchRange" /\ c.pc = "span"
            /\ ~r.fault
            /\ mem' = r.mem
            /\ centralFreeList_' = r.central
            /\ FreeSpans_' = r.P.FreeSpans
            /\ SpanMap_' = r.P.SpanMap
            /\ spans' = r.P.spans
            /\ osPages' = r.P.osPages
            /\ osGrants' = r.P.osGrants
            /\ carved' = carved \cup r.carved
            /\ osRefused' = (osRefused \/ (r.asked /\ r.ret = NULL))
            /\ mutex_' = NoThread
            /\ call' = [call EXCEPT ![t].pc = IF r.ret = NULL THEN "fail" ELSE "unlock",
                                    ![t].ret = r.ret]
            /\ UNCHANGED <<locks_, held, fetches, lastOp>>
            /\ LockFrame

\* allocateSpan has pages from the OS and `new Span` throws std::bad_alloc:
\* the lock_guard lets go of the mutex and fetchRange lands in its catch block
FetchThrow(t) ==
    LET c == call[t]
        r == fetchFromPageCache(PageState, (c.index + 1) * ALIGNMENT,
                                osGrants < MaxSpanGrants)
    IN  /\ c.op = "fetchRange" /\ c.pc = "span"
        /\ ~r.fault /\ r.asked /\ r.ret # NULL
        /\ osPages' = r.P.osPages
        /\ osGrants' = r.P.osGrants
        /\ mutex_' = NoThread
        /\ call' = [call EXCEPT ![t].pc = "catch"]
        /\ UNCHANGED <<mem, centralFreeList_, locks_, FreeSpans_, SpanMap_, spans,
                       held, carved, osRefused, fetches, lastOp>>
        /\ LockFrame

\* returnRange behind the lock: the chain is put in front of the class list
ReturnBody(t) ==
    LET c == call[t]
        r == returnRange(mem, centralFreeList_, c.ptr, c.n, c.index)
    IN  /\ c.op = "returnRange" /\ c.pc = "locked"
        /\ mem' = r.mem
        /\ centralFreeList_' = r.central
        /\ call' = [call EXCEPT ![t].pc = "unlock"]
        /\ UNCHANGED <<locks_, mutex_, FreeSpans_, SpanMap_, spans, osPages,
                       osGrants, held, carved, osRefused, fetches, lastOp>>
        /\ LockFrame

\* locks_[index].clear(release) and the return, or the rethrow, of the call;
\* the client takes the blocks of the chain fetchRange returns
Release(t) ==
    LET c == call[t]
    IN  /\ c.pc \in {"unlock", "fail", "catch"}
        /\ locks_' = clearLock(locks_, c.index, c.pc)
        /\ call' = [call EXCEPT ![t] = Idle]
        /\ held' = IF c.op = "fetchRange" /\ c.pc = "unlock"
                   THEN [held EXCEPT ![t] = @ \cup
                           {Held(a, c.index, "fetchRange") : a \in ListSet(mem, c.ret)}]
                   ELSE held
        /\ lastOp' = Op(IF c.pc = "catch" THEN "throw" ELSE c.op, t, c.n, c.ret)
        /\ UNCHANGED <<mem, centralFreeList_, mutex_, FreeSpans_, SpanMap_, spans,
                       osPages, osGrants, carved, osRefused, fetches>>
        /\ LockFrame

\* allocateSpan(numPages) is called by the client of thread t and waits at
\* its lock_guard
AllocSpanEnter(t, numPages) ==
    /\ call[t].pc = "idle"
    /\ call' = [call EXCEPT ![t] =
                   Call("allocateSpan", "mutex", 0, numPages, NULL, NULL)]
    /\ spanCalls' = spanCalls + 1
    /\ UNCHANGED <<mem, centralFreeList_, locks_, mutex_, FreeSpans_, SpanMap_,
                   spans, osPages, osGrants, held, carved, osRefused, fetches,
                   lastOp>>
    /\ UNCHANGED <<_freeList, _freeListSize, mallocLive, stack, spilled, afterShip,
                   misses, round>>

\* deallocateSpan(ptr, numPages) is called by the client of thread t with a
\* span it has checked out, and waits at its lock_guard
DeallocSpanEnter(t, b) ==
    /\ call[t].pc = "idle"
    /\ b.via = "allocateSpan"
    /\ call' = [call EXCEPT ![t] =
                   Call("deallocateSpan", "mutex", 0, b.cls, b.ptr, NULL)]
    /\ held' = [held EXCEPT ![t] = @ \ {b}]
    /\ spanCalls' = spanCalls + 1
    /\ UNCHANGED <<mem, centralFreeList_, locks_, mutex_, FreeSpans_, SpanMap_,
                   spans, osPages, osGrants, carved, osRefused, fetches, lastOp>>
    /\ UNCHANGED <<_freeList, _freeListSize, mallocLive, stack, spilled, afterShip,
                   misses, round>>

\* allocateSpan or deallocateSpan behind the lock_guard, to its return
SpanBody(t) ==
    \E osOk \in {osGrants < MaxSpanGrants} :
        LET c == call[t]
            r == allocateSpan(PageState, c.n, osOk)
            P == IF c.op = "allocateSpan" THEN r.P
                 ELSE deallocateSpan(PageState, c.ptr, c.n)
            ret == IF c.op = "allocateSpan" THEN r.ret ELSE c.ptr
        IN  /\ c.op \in {"allocateSpan", "deallocateSpan"} /\ c.pc = "span"
            /\ c.op = "allocateSpan" => ~r.fault
            /\ FreeSpans_' = P.FreeSpans
            /\ SpanMap_' = P.SpanMap
            /\ spans' = P.spans
            /\ osPages' = P.osPages
            /\ osGrants' = P.osGrants
            /\ osRefused' = (osRefused \/
                              (c.op = "allocateSpan" /\ r.asked /\ r.ret = NULL))
            /\ held' = IF c.op = "allocateSpan" /\ r.ret # NULL
                       THEN [held EXCEPT ![t] = @ \cup
                               {Held(r.ret, c.n, "allocateSpan")}]
                       ELSE held
            /\ mutex_' = NoThread
            /\ call' = [call EXCEPT ![t] = Idle]
            /\ lastOp' = Op(c.op, t, c.n, ret)
            /\ UNCHANGED <<mem, centralFreeList_, locks_, carved, fetches>>
            /\ LockFrame

\* allocateSpan behind the lock_guard reads span->next through the null head
\* of the entry lower_bound selected: the process stops, the thread inside
\* its call
SpanFault(t) ==
    LET c == call[t]
        fault == IF c.op = "fetchRange"
                 THEN fetchFromPageCache(PageState, (c.index + 1) * ALIGNMENT,
                                         TRUE).fault
                 ELSE allocateSpan(PageState, c.n, TRUE).fault
    IN  /\ c.op \in {"fetchRange", "allocateSpan"} /\ c.pc = "span"
        /\ fault
        /\ call' = [call EXCEPT ![t].pc = "fault"]
        /\ lastOp' = Op("fault", t, c.n, NULL)
        /\ UNCHANGED <<mem, centralFreeList_, locks_, mutex_, FreeSpans_, SpanMap_,
                       spans, osPages, osGrants, held, carved, osRefused, fetches>>
        /\ LockFrame

\* ------------------------------------------------------------------------
\* Specifications
\* ------------------------------------------------------------------------
\* an allocate call that would find its class list empty
WouldMiss(t, n) ==
    LET size == IF n = 0 THEN ALIGNMENT ELSE n
    IN  ~IsLarge(size) /\ _freeList[t][getIndex(size)] = NULL

\* Clients that allocate and free blocks of every size and fetch short chains
\* from the CentralCache
Next ==
    \/ \E t \in Threads, n \in ReqSizes :
          /\ WouldMiss(t, n) => misses < MaxMiss
          /\ Allocate(t, n)
          /\ UNCHANGED <<round, spanCalls, mutex_, call>>
    \/ \E t \in Threads, n \in ReqSizes : Deallocate(t, n) /\ UNCHANGED <<round, spanCalls, mutex_, call>>
    \/ \E t \in Threads, n \in ReqSizes, k \in SmallBatchNums :
          /\ ~IsLarge(n)
          /\ fetches < MaxFetch
          /\ FetchRange(t, getIndex(n), k)
          /\ UNCHANGED <<round, spanCalls, mutex_, call>>

Spec == Init /\ [][Next]_vars

\* Clients that work on the small class alone, fetch chains long enough to
\* fill a thread's list past the threshold, and allocate only from a list
\* that has blocks; the CentralCache carves one span
NextSpill ==
    \/ \E t \in Threads :
          /\ afterShip < MaxAfterShip
          /\ ~WouldMiss(t, SmallSize)
          /\ Allocate(t, SmallSize)
          /\ UNCHANGED <<round, spanCalls, mutex_, call>>
    \/ \E t \in Threads :
          /\ afterShip < MaxAfterShip
          /\ Deallocate(t, SmallSize)
          /\ UNCHANGED <<round, spanCalls, mutex_, call>>
    \/ \E t \in Threads, k \in BatchNums :
          /\ afterShip < MaxAfterShip
          /\ fetches < MaxFetch
          /\ centralFreeList_[getIndex(SmallSize)] = NULL
                => osGrants = 0 /\ k > SpillThreshold
          /\ FetchRange(t, getIndex(SmallSize), k)
          /\ UNCHANGED <<round, spanCalls, mutex_, call>>

SpecSpill == Init /\ [][NextSpill]_vars

\* the threads of the scenarios in which one thread works alone
SoloThreads == {"t1"}

\* A client that works on class 0 alone and asks for 0 bytes as well as for
\* ALIGNMENT bytes
NextZero ==
    \/ \E t \in SoloThreads, n \in ZeroSizes :
          /\ WouldMiss(t, n) => misses < MaxMiss
          /\ Allocate(t, n)
          /\ UNCHANGED <<round, spanCalls, mutex_, call>>
    \/ \E t \in SoloThreads : Deallocate(t, ALIGNMENT) /\ UNCHANGED <<round, spanCalls, mutex_, call>>
    \/ \E t \in SoloThreads, k \in SmallBatchNums :
          /\ fetches < MaxFetch
          /\ FetchRange(t, getIndex(ALIGNMENT), k)
          /\ UNCHANGED <<round, spanCalls, mutex_, call>>

SpecZero == Init /\ [][NextZero]_vars

\* the closed workload moves on: from warming up to round 1, or from a round
\* whose blocks are all freed to the next round
BeginRound(t) ==
    LET r == round[t]
    IN  /\ held[t] = {}
        /\ r.phase \in {"warm", "free"}
        /\ r.no < MaxRounds
        /\ round' = [round EXCEPT ![t] =
                        Round(r.no + 1, "alloc", RoundSize,
                              IF r.no = 1 THEN osPages ELSE r.pages)]
        /\ lastOp' = Op("round", t, r.no + 1, NULL)
        /\ UNCHANGED <<poolVars, mallocLive, held, carved, stack, spilled,
                       afterShip, osRefused, misses, fetches, spanCalls,
                       mutex_, call>>

\* one allocate call of the round
RoundAllocate(t, n) ==
    LET r == round[t]
    IN  /\ r.phase = "alloc"
        /\ Allocate(t, n)
        /\ round' = [round EXCEPT ![t] =
                        Round(r.no, IF r.left = 1 THEN "free" ELSE "alloc",
                              r.left - 1, r.pages)]
        /\ UNCHANGED <<spanCalls, mutex_, call>>

\* A thread that first may put blocks of one class on its list (blocks it
\* fetched from the CentralCache) and then repeats rounds: RoundSize
\* allocate calls of one size, then a deallocate of every block obtained
NextRound ==
    \/ \E t \in SoloThreads, k \in SmallBatchNums :
          /\ round[t].phase = "warm"
          /\ fetches < MaxFetch
          /\ FetchRange(t, getIndex(MidSize), k)
          /\ UNCHANGED <<round, spanCalls, mutex_, call>>
    \/ \E t \in SoloThreads :
          /\ round[t].phase \in {"warm", "free"}
          /\ Deallocate(t, MidSize)
          /\ UNCHANGED <<round, spanCalls, mutex_, call>>
    \/ \E t \in SoloThreads : BeginRound(t)
    \/ \E t \in SoloThreads : RoundAllocate(t, MidSize)

SpecRound == Init /\ [][NextRound]_vars

\* Clients of the PageCache alone: they check spans out and give each back
\* once, with the page count they asked for
NextPage ==
    \/ \E t \in SoloThreads, k \in 1 .. MaxSpanPages :
          /\ lastOp.op # "fault"
          /\ spanCalls < MaxSpanCalls
          /\ AllocateSpan(t, k)
    \/ \E t \in SoloThreads, k \in 1 .. MaxSpanPages :
          /\ lastOp.op # "fault"
          /\ spanCalls < MaxSpanCalls
          /\ AllocateSpanFault(t, k)
    \/ \E t \in SoloThreads :
          /\ lastOp.op # "fault"
          /\ spanCalls < MaxSpanCalls
          /\ \E b \in held[t] : DeallocateSpan(t, b)

SpecPage == Init /\ [][NextPage]_vars

\* the batch sizes of the clients that fetch from a span used before
ReuseBatchNums == {1, 2}

\* Clients of the PageCache and of the CentralCache side by side: a span of
\* SPAN_PAGES pages is checked out, written to and given back, and fetchRange
\* carves the span it is given; the PageCache is asked only while the OS
\* grants pages or a free span exists
NextReuse ==
    \/ \E t \in Threads :
          /\ spanCalls < MaxSpanCalls
          /\ osGrants >= MaxOsGrants => LowerBound(FreeSpans_, SPAN_PAGES) # NULL
          /\ AllocateSpan(t, SPAN_PAGES)
    \/ \E t \in Threads : \E b \in held[t] : WriteSpan(t, b)
    \/ \E t \in Threads :
          /\ spanCalls < MaxSpanCalls
          /\ \E b \in held[t] : DeallocateSpan(t, b)
    \/ \E t \in Threads, k \in ReuseBatchNums :
          /\ fetches < MaxFetch
          /\ FetchRange(t, getIndex(MidSize), k)
          /\ UNCHANGED <<round, spanCalls, mutex_, call>>

SpecReuse == Init /\ [][NextReuse]_vars

\* the size arguments of the clients that return chains: below, at and above
\* the length of the chains they hold
ReturnCounts == {1, 2, 3}

\* Clients of the CentralCache alone: they fetch chains of one or two blocks
\* of one class and return the chains they hold
NextReturn ==
    \/ \E t \in Threads, k \in ReuseBatchNums :
          /\ fetches < MaxFetch
          /\ FetchRange(t, getIndex(MidSize), k)
          /\ UNCHANGED <<round, spanCalls, mutex_, call>>
    \/ \E t \in Threads, count \in ReturnCounts :
          \E b \in held[t] : ReturnRange(t, b, count)

SpecReturn == Init /\ [][NextReturn]_vars

\* Threads that put blocks of one class on their lists, take them off again
\* and end
NextExit ==
    \/ \E t \in Threads, k \in SmallBatchNums :
          /\ fetches < MaxFetch
          /\ FetchRange(t, getIndex(MidSize), k)
          /\ UNCHANGED <<round, spanCalls, mutex_, call>>
    \/ \E t \in Threads : Deallocate(t, MidSize) /\ UNCHANGED <<round, spanCalls, mutex_, call>>
    \/ \E t \in Threads :
          /\ ~WouldMiss(t, MidSize)
          /\ Allocate(t, MidSize)
          /\ UNCHANGED <<round, spanCalls, mutex_, call>>
    \/ \E t \in Threads : ThreadExit(t)

SpecExit == Init /\ [][NextExit]_vars

\* the classes and the batch sizes of the threads whose calls are followed
\* step by step
LockClasses == {getIndex(SmallSize), getIndex(MidSize)}

LockBatchNums == {0, 1, 2}

\* Threads in the CentralCache and in the PageCache at the same time: each
\* call is a sequence of steps, and the steps of the threads interleave; the
\* clients of the PageCache check out one span at a time
NextLock ==
    \/ \E t \in Threads, i \in LockClasses, k \in LockBatchNums :
          /\ fetches < MaxFetch
          /\ FetchEnter(t, i, k)
    \/ \E t \in Threads, count \in ReturnCounts :
          \E b \in held[t] : ReturnEnter(t, b, count)
    \/ \E t \in Threads : Acquire(t)
    \/ \E t \in Threads : FetchList(t)
    \/ \E t \in Threads : FetchMiss(t)
    \/ \E t \in Threads : SpanLock(t)
    \/ \E t \in Threads : FetchSpan(t)
    \/ \E t \in Threads : FetchThrow(t)
    \/ \E t \in Threads : ReturnBody(t)
    \/ \E t \in Threads : Release(t)
    \/ \E t \in Threads :
          /\ spanCalls < MaxLockSpanCalls
          /\ \A u \in Threads :
                /\ call[u].op # "allocateSpan"
                /\ \A h \in held[u] : h.via # "allocateSpan"
          /\ AllocSpanEnter(t, SPAN_PAGES)
    \/ \E t \in Threads :
          /\ spanCalls < MaxLockSpanCalls
          /\ \E b \in held[t] : DeallocSpanEnter(t, b)
    \/ \E t \in Threads : SpanBody(t)

SpecLock == Init /\ [][NextLock]_vars

\* the page counts the clients of the PageCache ask for, and the batch sizes
\* and the size arguments of the calls of the CentralCache
OrderSpanPages == {1}

OrderClasses == {getIndex(MidSize), getIndex(MAX_BYTES)}

OrderBatchNums == {1}

OrderCounts == {1}

\* the process runs: no thread has read through a null Span pointer
Running == lastOp.op # "fault"

\* a call may begin: the process runs and the threads have calls left
MayEnter == Running /\ fetches + spanCalls < MaxOrderCalls

\* the next step of the call thread t is in
Step(t) ==
    \/ Running /\ Acquire(t)
    \/ Running /\ FetchList(t)
    \/ Running /\ FetchMiss(t)
    \/ Running /\ SpanLock(t)
    \/ Running /\ FetchSpan(t)
    \/ Running /\ FetchThrow(t)
    \/ Running /\ SpanFault(t)
    \/ Running /\ ReturnBody(t)
    \/ Running /\ Release(t)
    \/ Running /\ SpanBody(t)

\* Threads in the CentralCache and in the PageCache at the same time, the
\* clients of the PageCache with any number of spans checked out; a read
\* through a null Span pointer stops the process
NextOrder ==
    \/ \E t \in Threads, i \in OrderClasses, k \in OrderBatchNums :
          MayEnter /\ FetchEnter(t, i, k)
    \/ \E t \in Threads, count \in OrderCounts :
          MayEnter /\ \E b \in held[t] : ReturnEnter(t, b, count)
    \/ \E t \in Threads, k \in OrderSpanPages : MayEnter /\ AllocSpanEnter(t, k)
    \/ \E t \in Threads : MayEnter /\ \E b \in held[t] : DeallocSpanEnter(t, b)
    \/ \E t \in Threads : Step(t)

\* the scheduler is weakly fair to every thread: a thread whose next step
\* can be taken from some point on takes a step
SpecOrder == Init /\ [][NextOrder]_vars /\ \A t \in Threads : WF_vars(Step(t))

\* SizeClass alone: a request size is drawn, and roundUp and getIndex are
\* applied to it; the result of roundUp can be fed back as the next input
SizeInputs == (0 .. MaxSizeLow) \cup ((MAX_BYTES - MaxSizeBack) .. (MAX_BYTES + 1))

InitSize == InitPool /\ \E n \in SizeInputs : lastOp = Op("input", "t1", n, NULL)

\* SizeClass has no state: everything but the call record stays
SizeFrame ==
    UNCHANGED <<poolVars, mallocLive, held, carved, stack, spilled, afterShip,
                osRefused, misses, fetches, round, spanCalls, mutex_, call>>

RoundUpCall ==
    /\ lastOp.op # "roundUp"
    /\ lastOp' = Op("roundUp", lastOp.t, lastOp.n, roundUp(lastOp.n))
    /\ SizeFrame

GetIndexCall ==
    /\ lastOp.op # "getIndex"
    /\ lastOp' = Op("getIndex", lastOp.t, lastOp.n, getIndex(lastOp.n))
    /\ SizeFrame

FeedBack ==
    /\ lastOp.op = "roundUp"
    /\ lastOp' = Op("input", lastOp.t, lastOp.ret, NULL)
    /\ SizeFrame

NextSize ==
    \/ RoundUpCall
    \/ GetIndexCall
    \/ FeedBack

SpecSize == InitSize /\ [][NextSize]_vars

\* getBatchNum alone: a block size is drawn and getBatchNum is applied to it
BatchSizes == {(i + 1) * ALIGNMENT : i \in 0 .. MaxBatchClass} \cup {MAX_BYTES}

InitBatch == InitPool /\ \E n \in BatchSizes : lastOp = Op("input", "t1", n, NULL)

GetBatchNumCall ==
    /\ lastOp.op = "input"
    /\ lastOp' = Op("getBatchNum", lastOp.t, lastOp.n, getBatchNum(lastOp.n))
    /\ SizeFrame

NextBatch == GetBatchNumCall

SpecBatch == InitBatch /\ [][NextBatch]_vars

\* ------------------------------------------------------------------------
\* Views of the state used by the properties
\* ------------------------------------------------------------------------
\* the blocks on thread t's class-i list, and on the CentralCache class-i list
T1Seq(t, i) == ListSeq(mem, _freeList[t][i])

T1Set(t, i) == Range(T1Seq(t, i))

T2Set(i) == ListSet(mem, centralFreeList_[i])

\* every free list of the process, by name
FreeLists ==
    {<<"T1", t, i>> : t \in Threads, i \in Classes} \cup {<<"T2", "-", i>> : i \in Classes}

NodesOf(l) == IF l[1] = "T1" THEN T1Set(l[2], l[3]) ELSE T2Set(l[3])

HeldPtrs == {b.ptr : b \in UNION {held[t] : t \in Threads}}

\* the Span objects on the list FreeSpans_[key], head first
RECURSIVE SpanChain(_, _)
SpanChain(id, seen) ==
    IF id = NULL \/ id \in seen \/ id \notin DOMAIN spans
    THEN <<>>
    ELSE <<id>> \o SpanChain(spans[id].next, seen \cup {id})

FreeSpanSeq(key) == SpanChain(FreeSpans_[key], {})

\* the Span objects on some free list
FreeSpanIds == UNION {Range(FreeSpanSeq(key)) : key \in DOMAIN FreeSpans_}

\* the spans the clients have checked out
CheckedOut == {b \in UNION {held[t] : t \in Threads} : b.via = "allocateSpan"}

\* the OS refuses the next page request
OsRefuses == osGrants >= MaxOsGrants

\* [a, a + n) and [b, b + k) share a byte
Overlap(a, n, b, k) == a < b + k /\ b < a + n

\* ------------------------------------------------------------------------
\* Properties
\* ------------------------------------------------------------------------
\* C1: a pointer returned by allocate is not returned by another allocate
\* call, of any thread, before it has been passed to deallocate.
C1_NoDoubleAllocation ==
    lastOp.op = "allocate" => ~lastOp.dup

\* C2: between calls, no block is reachable from two free lists (two
\* ThreadCache slots, or a ThreadCache slot and a CentralCache list).
C2_OneListPerBlock ==
    \A l1, l2 \in FreeLists : l1 # l2 => NodesOf(l1) \cap NodesOf(l2) = {}

\* C3: every block carved for a class is in a client's hands, on a
\* ThreadCache list of that class or on the CentralCache list of that class.
C3_BlockConservation ==
    \A c \in carved :
        LET i == getIndex(c.size)
        IN  \/ c.addr \in HeldPtrs
            \/ c.addr \in T2Set(i)
            \/ \E t \in Threads : c.addr \in T1Set(t, i)

\* C8: a deallocate that makes the class list hold N > 64 blocks leaves
\* ceil(N/2) of them on the thread's list and ships the other N - ceil(N/2)
\* as one chain; the two sets are disjoint and together are the N blocks.
C8_SpillSplit ==
    (lastOp.op = "deallocate" /\ lastOp.spill
        /\ Len(lastOp.before) > SpillThreshold)
    => LET N == Len(lastOp.before)
           kept == T1Seq(lastOp.t, getIndex(lastOp.n))
       IN  /\ Len(kept) = (N + 1) \div 2
           /\ Len(kept) >= 1
           /\ Len(lastOp.shipped) = N - ((N + 1) \div 2)
           /\ Range(kept) \cap Range(lastOp.shipped) = {}
           /\ Range(kept) \cup Range(lastOp.shipped) = Range(lastOp.before)

\* C4: an allocate that finds the class list empty, while the CentralCache
\* list holds blocks or the OS still grants pages, returns a block that is
\* not left on the thread's list, and the counter equals the list's length.
C4_RefillOnMiss ==
    LET i == getIndex(IF lastOp.n = 0 THEN ALIGNMENT ELSE lastOp.n)
    IN  (lastOp.op = "allocate" /\ lastOp.n <= MAX_BYTES /\ lastOp.wasEmpty
            /\ (centralFreeList_[i] # NULL \/ osGrants < MaxOsGrants))
        => /\ lastOp.ret # NULL
           /\ lastOp.ret \notin T1Set(lastOp.t, i)
           /\ _freeListSize[lastOp.t][i] = Len(T1Seq(lastOp.t, i))

\* C5: allocate(n) with n <= MAX_BYTES returns a non-null pointer unless the
\* OS has refused a page request.
C5_AllocateNonNull ==
    (lastOp.op = "allocate" /\ lastOp.n <= MAX_BYTES /\ ~osRefused)
    => lastOp.ret # NULL

\* C6: every block handed out for a class is ALIGNMENT-aligned, lies with
\* all its round_up(n) bytes inside the span it was carved from, and shares
\* no byte with another block.
C6_BlocksInsideSpan ==
    \A c \in carved :
        /\ c.addr % ALIGNMENT = 0
        /\ c.addr >= c.base
        /\ c.addr + c.size <= c.base + c.pages * PAGE_SIZE
        /\ \A d \in carved :
              d.addr # c.addr => ~Overlap(c.addr, c.size, d.addr, d.size)

\* C7: while the thread has shipped nothing to the CentralCache, an allocate
\* on a class whose list holds blocks this thread freed returns the block
\* freed most recently among those not yet handed out again.
C7_LIFO ==
    (lastOp.op = "allocate" /\ lastOp.n <= MAX_BYTES /\ ~spilled
        /\ lastOp.expect # NULL)
    => lastOp.ret = lastOp.expect

\* C7 witness: two blocks of a class were freed, the one freed last has just
\* been returned and the other one is still on the list.
C7_Witness ==
    LET i == getIndex(IF lastOp.n = 0 THEN ALIGNMENT ELSE lastOp.n)
    IN  /\ lastOp.op = "allocate" /\ lastOp.n <= MAX_BYTES /\ ~spilled
        /\ lastOp.expect # NULL /\ lastOp.ret = lastOp.expect
        /\ stack[lastOp.t][i] # <<>>
        /\ T1Seq(lastOp.t, i) = stack[lastOp.t][i]

\* C9: when a pool deallocate returns, the class list of the thread holds
\* at most 64 blocks and its counter is at most 64; if the push made the
\* list longer than 64, the CentralCache list of the class is non-empty.
C9_ListBounded ==
    LET i == getIndex(lastOp.n)
    IN  (lastOp.op = "deallocate" /\ lastOp.n <= MAX_BYTES)
        => /\ Len(T1Seq(lastOp.t, i)) <= SpillThreshold
           /\ _freeListSize[lastOp.t][i] <= SpillThreshold
           /\ Len(lastOp.before) > SpillThreshold
                 => centralFreeList_[i] # NULL

\* C10: a call with n > MAX_BYTES goes to malloc / free and leaves every
\* pool structure untouched; a call with n = MAX_BYTES is served by the
\* pool, on class FREE_LIST_SIZE - 1, and leaves the malloc heap untouched.
C10_LargeBoundary ==
    [][LET o == lastOp'
           last == FREE_LIST_SIZE - 1
       IN  /\ (o.op \in {"allocate", "deallocate"} /\ o.n > MAX_BYTES)
                 => UNCHANGED poolVars
           /\ (o.op = "allocate" /\ o.n = MAX_BYTES)
                 => /\ o.ret = _freeList[o.t][last]
                    /\ _freeListSize'[o.t][last] = Dec(_freeListSize[o.t][last])
                    /\ UNCHANGED mallocLive
           /\ (o.op = "deallocate" /\ o.n = MAX_BYTES)
                 => /\ _freeListSize'[o.t][last] # _freeListSize[o.t][last]
                    /\ \/ o.ret \in ListSet(mem', _freeList'[o.t][last])
                       \/ o.shipped # <<>>
                    /\ UNCHANGED mallocLive
      ]_vars

\* C10 witness: a MAX_BYTES request has just been served from the pool list
\* while a block obtained from malloc for a larger request is live.
C10_Witness ==
    /\ lastOp.op = "allocate" /\ lastOp.n = MAX_BYTES /\ lastOp.ret # NULL
    /\ lastOp.ret \in HeldPtrs
    /\ mallocLive # {}

\* C12: for every n in 1 .. MAX_BYTES, roundUp(n) = (getIndex(n) + 1) *
\* ALIGNMENT and 0 <= getIndex(n) < FREE_LIST_SIZE.
C12_ClassSize ==
    (lastOp.op = "getIndex" /\ lastOp.n >= 1 /\ lastOp.n <= MAX_BYTES)
    => /\ roundUp(lastOp.n) = (lastOp.ret + 1) * ALIGNMENT
       /\ 0 <= lastOp.ret
       /\ lastOp.ret < FREE_LIST_SIZE

\* C12 witness: getIndex has been applied to MAX_BYTES and gave the last
\* class.
C12_Witness ==
    /\ lastOp.op = "getIndex" /\ lastOp.n = MAX_BYTES
    /\ lastOp.ret = FREE_LIST_SIZE - 1
    /\ roundUp(lastOp.n) = MAX_BYTES

\* C13: for every n in 0 .. MAX_BYTES, roundUp(n) is the smallest multiple
\* of ALIGNMENT that is >= max(n, ALIGNMENT).
C13_RoundUpSmallest ==
    (lastOp.op = "roundUp" /\ lastOp.n <= MAX_BYTES)
    => LET least == IF lastOp.n > ALIGNMENT THEN lastOp.n ELSE ALIGNMENT
       IN  /\ lastOp.ret % ALIGNMENT = 0
           /\ lastOp.ret >= least
           /\ lastOp.ret - ALIGNMENT < least

\* C14: for every n <= MAX_BYTES, getIndex(roundUp(n)) = getIndex(n) and
\* roundUp(roundUp(n)) = roundUp(n).
C14_RoundTrip ==
    (lastOp.op = "roundUp" /\ lastOp.n <= MAX_BYTES)
    => /\ getIndex(lastOp.ret) = getIndex(lastOp.n)
       /\ roundUp(lastOp.ret) = lastOp.ret

\* C14 witness: roundUp has changed an unaligned size, and the class is the
\* same before and after.
C14_Witness ==
    /\ lastOp.op = "roundUp" /\ lastOp.n <= MAX_BYTES
    /\ lastOp.ret # lastOp.n /\ lastOp.n > ALIGNMENT
    /\ getIndex(lastOp.ret) = getIndex(lastOp.n)

\* C11: allocate(0) gives the result and makes the state change that
\* allocate(ALIGNMENT) makes from the same state, and the pointer it returns
\* is a block of class 0.
C11_ZeroIsAlignment ==
    [][LET o == lastOp'
           r == allocatePool(mem, _freeList[o.t], _freeListSize[o.t], ALIGNMENT)
       IN  (o.op = "allocate" /\ o.n = 0)
           => /\ o.ret = r.ret
              /\ _freeList' = [_freeList EXCEPT ![o.t] = r.fl]
              /\ _freeListSize' = [_freeListSize EXCEPT ![o.t] = r.fls]
              /\ UNCHANGED <<mem, centralFreeList_, locks_, FreeSpans_, SpanMap_,
                             spans, osPages, osGrants, mallocLive>>
              /\ o.ret # NULL
              /\ \E c \in carved : c.addr = o.ret /\ c.size = ALIGNMENT
      ]_vars

RecordedPages(base) == spans[SpanMap_[base]].sizePages

\* C17 as stated: SpanMap_ holds the base of every span checked out, and no
\* span on a FreeSpans_ list has its base in SpanMap_.
C17_MapExclusion ==
    /\ \A b \in CheckedOut : b.ptr \in DOMAIN SpanMap_
    /\ \A id \in FreeSpanIds : spans[id].PageAddr \notin DOMAIN SpanMap_

\* C17 amended: SpanMap_ holds the base of every span checked out, recorded
\* with the Span at that base and the page count asked for, and that Span is
\* on no free list; a span given back by deallocateSpan is on a free list
\* and keeps its record in SpanMap_; a record at the base of a span on a
\* free list is the record of that span.
C17_MapKeepsFreed ==
    /\ \A b \in CheckedOut :
          /\ b.ptr \in DOMAIN SpanMap_
          /\ spans[SpanMap_[b.ptr]].PageAddr = b.ptr
          /\ RecordedPages(b.ptr) = b.cls
          /\ SpanMap_[b.ptr] \notin FreeSpanIds
    /\ lastOp.op = "deallocateSpan"
          => /\ lastOp.ret \in DOMAIN SpanMap_
             /\ SpanMap_[lastOp.ret] \in FreeSpanIds
    /\ \A id \in FreeSpanIds :
          spans[id].PageAddr \in DOMAIN SpanMap_
             => SpanMap_[spans[id].PageAddr] = id

\* C17 witness: a span has just been given back while another is checked
\* out, and a free list also holds a span SpanMap_ has no record of.
C17_Witness ==
    /\ lastOp.op = "deallocateSpan"
    /\ SpanMap_[lastOp.ret] \in FreeSpanIds
    /\ CheckedOut # {}
    /\ \E id \in FreeSpanIds : spans[id].PageAddr \notin DOMAIN SpanMap_

\* C18: the address ranges [base, base + sizePages * PAGE_SIZE) of the spans
\* recorded in SpanMap_ are pairwise disjoint.
C18_RecordsDisjoint ==
    \A a, b \in DOMAIN SpanMap_ :
        a # b => ~Overlap(a, RecordedPages(a) * PAGE_SIZE,
                          b, RecordedPages(b) * PAGE_SIZE)

\* C18 witness: deallocateSpan has just merged the freed span with its
\* successor, after a split has happened, and other spans are recorded.
C18_Witness ==
    /\ lastOp.op = "deallocateSpan"
    /\ RecordedPages(lastOp.ret) > lastOp.n
    /\ Cardinality(DOMAIN SpanMap_) >= 2
    /\ \E id \in FreeSpanIds : spans[id].PageAddr \notin DOMAIN SpanMap_

\* C19: whenever a FreeSpans_ list holds a span of k pages or more,
\* allocateSpan(k) makes no OS request and returns the base of the span at
\* the head of the list with the smallest page count >= k.
C19_BestFit ==
    \A k \in 1 .. MaxSpanPages :
        LET keys == {key \in DOMAIN FreeSpans_ :
                        key >= k /\ FreeSpans_[key] # NULL}
            r == allocateSpan(PageState, k, TRUE)
        IN  keys # {}
            => /\ ~r.fault
               /\ ~r.asked
               /\ r.ret = spans[FreeSpans_[Min(keys)]].PageAddr

\* C20: when allocateSpan(k) takes a free span of orig pages at base, base
\* is recorded in SpanMap_ with k pages; if orig > k a new span of orig - k
\* pages at base + k * PAGE_SIZE is the head of FreeSpans_[orig - k], in
\* front of the list's former head; if orig = k no span is created.
C20_Split ==
    [][LET o == lastOp'
           k == o.n
           key == LowerBound(FreeSpans_, k)
       IN  (o.op = "allocateSpan" /\ key # NULL)
           => LET id == FreeSpans_[key]
                  base == spans[id].PageAddr
                  orig == spans[id].sizePages
                  rest == orig - k
                  oldHead == IF rest \in DOMAIN FreeSpans_ /\ rest # key
                             THEN FreeSpans_[rest] ELSE NULL
              IN  /\ o.ret = base
                  /\ base \in DOMAIN SpanMap_'
                  /\ spans'[SpanMap_'[base]].PageAddr = base
                  /\ spans'[SpanMap_'[base]].sizePages = k
                  /\ orig > k
                        => /\ rest \in DOMAIN FreeSpans_'
                           /\ FreeSpans_'[rest] \notin DOMAIN spans
                           /\ spans'[FreeSpans_'[rest]] =
                                 [PageAddr |-> base + k * PAGE_SIZE,
                                  sizePages |-> rest, next |-> oldHead]
                  /\ orig = k => DOMAIN spans' = DOMAIN spans
                  /\ UNCHANGED <<osPages, osGrants>>
      ]_vars

\* C20 witness: allocateSpan has just split a free span, and the remainder
\* sits behind the returned pages at the head of its list.
C20_Witness ==
    /\ lastOp.op = "allocateSpan" /\ lastOp.ret # NULL
    /\ \E key \in DOMAIN FreeSpans_ :
          /\ FreeSpans_[key] # NULL
          /\ spans[FreeSpans_[key]].PageAddr = lastOp.ret + lastOp.n * PAGE_SIZE
          /\ spans[FreeSpans_[key]].sizePages = key
          /\ spans[FreeSpans_[key]].PageAddr \notin DOMAIN SpanMap_
    /\ \E b \in CheckedOut : b.ptr # lastOp.ret

\* C16: in the closed workload, every allocate of a round after the first
\* is served with a block, and the number of pages obtained from the OS is
\* the number it was when the first round ended.
C16_SteadyState ==
    (lastOp.op = "allocate" /\ round[lastOp.t].no >= 2)
    => /\ lastOp.ret # NULL
       /\ osPages = round[lastOp.t].pages

\* C21: deallocateSpan(base, k) with a record at base + k * PAGE_SIZE whose
\* span is on a free list takes that successor off its list, deletes it and
\* its record, gives the freed span k + k' pages and makes it the head of
\* FreeSpans_[k + k']; when the recorded successor is on no free list, the
\* freed span keeps its k pages and becomes the head of FreeSpans_[k], and
\* the successor and the records stay as they are.
C21_ForwardCoalesce ==
    [][LET o == lastOp'
           base == o.ret
           k == o.n
           nextAddr == base + k * PAGE_SIZE
       IN  (o.op = "deallocateSpan" /\ nextAddr \in DOMAIN SpanMap_)
           => LET id == SpanMap_[base]
                  nx == SpanMap_[nextAddr]
                  k2 == spans[nx].sizePages
              IN  IF nx \in FreeSpanIds
                  THEN /\ nx \notin DOMAIN spans'
                       /\ nextAddr \notin DOMAIN SpanMap_'
                       /\ DOMAIN SpanMap_' = (DOMAIN SpanMap_) \ {nextAddr}
                       /\ spans'[id].PageAddr = base
                       /\ spans'[id].sizePages = k + k2
                       /\ FreeSpans_'[k + k2] = id
                       /\ FreeSpanIds' = (FreeSpanIds \ {nx}) \cup {id}
                  ELSE /\ spans'[id].PageAddr = base
                       /\ spans'[id].sizePages = k
                       /\ FreeSpans_'[k] = id
                       /\ spans'[nx] = spans[nx]
                       /\ SpanMap_' = SpanMap_
                       /\ FreeSpanIds' = FreeSpanIds \cup {id}
      ]_vars

\* C21 witness: deallocateSpan has just merged the freed span with a free
\* successor and made it the head of the list of the summed page count,
\* while the span behind the merged one is checked out and recorded.
C21_Witness ==
    /\ lastOp.op = "deallocateSpan"
    /\ RecordedPages(lastOp.ret) > lastOp.n
    /\ FreeSpans_[RecordedPages(lastOp.ret)] = SpanMap_[lastOp.ret]
    /\ \E b \in CheckedOut :
          b.ptr = lastOp.ret + RecordedPages(lastOp.ret) * PAGE_SIZE

\* C22: a fetchRange with batchNum >= 1 on a class whose list holds L blocks
\* returns a null-terminated chain of the first min(batchNum, L) blocks of
\* the list, in list order, and leaves the other blocks as the class list, in
\* their order; the new head is the block behind the last one taken, or null.
C22_FetchFromList ==
    [][LET o == lastOp'
       IN  \A i \in Classes :
              (o.op = "fetchRange" /\ o.n >= 1
                  /\ centralFreeList_[i] # NULL /\ centralFreeList_[i] = o.ret
                  /\ ~CyclicFrom(mem, centralFreeList_[i], {}))
              => LET list == ListSeq(mem, centralFreeList_[i])
                     L == Len(list)
                     taken == IF o.n < L THEN o.n ELSE L
                 IN  /\ ListSeq(mem', o.ret) = SubSeq(list, 1, taken)
                     /\ ~CyclicFrom(mem', o.ret, {})
                     /\ ListSeq(mem', centralFreeList_'[i]) = SubSeq(list, taken + 1, L)
                     /\ centralFreeList_'[i] = IF taken < L THEN list[taken + 1]
                                               ELSE NULL
      ]_vars

\* C22 witness: a fetchRange of one block has just been served from a class
\* list that held more, and the list still holds blocks.
C22_Witness ==
    /\ lastOp.op = "fetchRange" /\ lastOp.n = 1 /\ lastOp.ret # NULL
    /\ Load(mem, lastOp.ret) = NULL
    /\ spilled
    /\ \E i \in Classes :
          /\ centralFreeList_[i] # NULL
          /\ \E c \in carved : c.addr = lastOp.ret /\ getIndex(c.size) = i

\* C23: a fetchRange(i, batchNum) on an empty class list with block size
\* s = (i + 1) * ALIGNMENT <= 32 KiB that obtains a span obtains one of
\* SPAN_PAGES pages, returns a null-terminated chain of the first
\* min(batchNum, 32768 \div s) blocks of the span, s bytes apart, and leaves
\* the other blocks of the span, in address order, as the null-terminated
\* class list.
C23_CarveOnMiss ==
    [][LET o == lastOp'
       IN  \A i \in Classes :
              LET s == (i + 1) * ALIGNMENT
                  r == fetchRange(mem, centralFreeList_, PageState, i, o.n, TRUE)
                  total == (SPAN_PAGES * PAGE_SIZE) \div s
                  take == IF o.n < total THEN o.n ELSE total
              IN  (o.op = "fetchRange" /\ o.n >= 1 /\ o.ret # NULL
                      /\ centralFreeList_[i] = NULL
                      /\ s <= SPAN_PAGES * PAGE_SIZE
                      /\ r.ret = o.ret /\ r.mem = mem'
                      /\ r.central = centralFreeList_')
                  => /\ o.ret \in DOMAIN SpanMap_'
                     /\ spans'[SpanMap_'[o.ret]].PageAddr = o.ret
                     /\ spans'[SpanMap_'[o.ret]].sizePages = SPAN_PAGES
                     /\ ListSeq(mem', o.ret) =
                           [j \in 1 .. take |-> o.ret + (j - 1) * s]
                     /\ ListSeq(mem', centralFreeList_'[i]) =
                           [j \in 1 .. (total - take) |->
                               o.ret + (take + j - 1) * s]
      ]_vars

\* C24: the span fetchRange obtains for a class of block size s has
\* SPAN_PAGES pages when s <= 32 KiB and ceil(s / PAGE_SIZE) pages when
\* s > 32 KiB, so it is at least s bytes long.
C24_SpanSizing ==
    \A c \in carved :
        LET needed == (c.size + PAGE_SIZE - 1) \div PAGE_SIZE
        IN  /\ c.pages = IF needed <= SPAN_PAGES THEN SPAN_PAGES ELSE needed
            /\ c.pages * PAGE_SIZE >= c.size

\* C25: returnRange(ptr, size, index) with a chain of blocks makes the class
\* list the incoming chain followed by the list as it was, whatever the size
\* argument is: the list grows by the length of the chain and no block of
\* the chain or of the former list is dropped.
C25_ReturnSplices ==
    [][LET o == lastOp'
       IN  \A i \in Classes :
              (o.op = "returnRange"
                  /\ \E b \in held[o.t] : b.ptr = o.ret /\ b.cls = i)
              => LET chain == ListSeq(mem, o.ret)
                     before == ListSeq(mem, centralFreeList_[i])
                     after == ListSeq(mem', centralFreeList_'[i])
                 IN  /\ after = chain \o before
                     /\ Len(after) = Len(before) + Len(chain)
                     /\ Range(chain) \cup Range(before) \subseteq Range(after)
      ]_vars

\* C26: for every block size s in ALIGNMENT .. MAX_BYTES, getBatchNum(s) is
\* max(1, min(baseline(s), 4096 \div s)) with baseline 64, 32, 16, 8, 4, 2,
\* 1 for s <= 32, 64, 128, 256, 512, 1024 and above; it is 2 for
\* 512 < s <= 1024 and 1 for s > 1024, and getBatchNum(s) * s <= 4096 for
\* s <= 4096.
C26_BatchNum ==
    (lastOp.op = "getBatchNum" /\ lastOp.n >= ALIGNMENT /\ lastOp.n <= MAX_BYTES)
    => LET s == lastOp.n
           baseline == IF s <= 32 THEN 64 ELSE IF s <= 64 THEN 32
                       ELSE IF s <= 128 THEN 16 ELSE IF s <= 256 THEN 8
                       ELSE IF s <= 512 THEN 4 ELSE IF s <= 1024 THEN 2 ELSE 1
       IN  /\ lastOp.ret = Max({1, Min({baseline, 4096 \div s})})
           /\ (512 < s /\ s <= 1024) => lastOp.ret = 2
           /\ s > 1024 => lastOp.ret = 1
           /\ s <= 4096 => lastOp.ret * s <= 4096

\* C28: the head of a CentralCache class list and the links of the blocks on
\* it are written only under the class lock, by fetchRange and returnRange:
\* a ThreadCache operation that does not call returnRange leaves the heads
\* and the links of the blocks on the class list as they are, and the block
\* a ThreadCache operation pops for the user or pushes for the user is not
\* on the CentralCache list of its class.
C28_WritesUnderLock ==
    [][LET o == lastOp'
           i == getIndex(IF o.n = 0 THEN ALIGNMENT ELSE o.n)
       IN  (o.op \in {"allocate", "deallocate"} /\ o.n <= MAX_BYTES)
           => /\ o.ret \notin T2Set(i)
              /\ ~o.spill
                    => /\ centralFreeList_' = centralFreeList_
                       /\ \A a \in T2Set(i) : Load(mem', a) = Load(mem, a)
      ]_vars

\* C30: when a thread ends, every block on one of its ThreadCache class
\* lists is afterwards on the CentralCache list of the same class.
C30_ExitDrain ==
    [][LET o == lastOp'
       IN  o.op = "exit"
           => \A i \in Classes :
                 T1Set(o.t, i) \subseteq ListSet(mem', centralFreeList_'[i])
      ]_vars

\* thread t is in a lock section of class i: behind the test_and_set of a
\* fetchRange or returnRange on class i and before its clear
Inside(t, i) ==
    /\ call[t].op \in {"fetchRange", "returnRange"}
    /\ call[t].index = i
    /\ call[t].pc \in {"locked", "mutex", "span", "unlock", "fail", "catch"}

\* C27: the lock of class i is set exactly while a thread is in a lock
\* section of class i, so it is clear whenever no thread is; the PageCache
\* mutex is held exactly by a thread behind the lock_guard of allocateSpan
\* or deallocateSpan; a call clears the lock it has set, once, when it
\* leaves by its normal return, its null return or its catch block.
C27_LocksReleased ==
    /\ [](/\ \A i \in Classes : locks_[i] = (\E t \in Threads : Inside(t, i))
          /\ \A t \in Threads : (mutex_ = t) = (call[t].pc = "span")
          /\ mutex_ \in Threads \cup {NoThread})
    /\ [][\A t \in Threads :
             (call[t].pc \in {"unlock", "fail", "catch"} /\ call'[t].pc = "idle")
             => /\ locks_[call[t].index]
                /\ ~locks_'[call[t].index]
                /\ \A j \in Classes \ {call[t].index} : locks_'[j] = locks_[j]
        ]_vars

\* C27 witness: a fetchRange has just left through its catch block after a
\* null return has happened, its thread holds no lock, and the only locks
\* set are those of the other thread, which is in a lock section.
C27_Witness ==
    /\ lastOp.op = "throw"
    /\ osRefused
    /\ call[lastOp.t].pc = "idle"
    /\ mutex_ = NoThread
    /\ \E u \in Threads \ {lastOp.t} :
          /\ Inside(u, call[u].index)
          /\ \A i \in Classes : locks_[i] = (i = call[u].index)

C31_CounterAccuracy ==
    \A t \in Threads, i \in Classes :
        _freeListSize[t][i] = Len(T1Seq(t, i))

\* C32: an allocate call that returns null leaves every free-list head and
\* every counter of the calling thread as they were, no allocate takes a
\* counter below zero, and a deallocate spills only from a list that held
\* more than 64 blocks after the push.
C32_FailedAllocateNoEffect ==
    [][/\ (lastOp'.op = "allocate" /\ lastOp'.ret = NULL)
            => /\ _freeList'[lastOp'.t] = _freeList[lastOp'.t]
               /\ _freeListSize'[lastOp'.t] = _freeListSize[lastOp'.t]
       /\ lastOp'.op = "allocate"
            => \A i \in Classes :
                  _freeListSize'[lastOp'.t][i] <= _freeListSize[lastOp'.t][i]
       /\ (lastOp'.op = "deallocate" /\ lastOp'.spill)
            => Len(lastOp'.before) > SpillThreshold]_vars


\* C33: every key present in FreeSpans_ maps to a non-null list head, and
\* no allocateSpan call reads through the null head of the entry that
\* lower_bound selects.
C33_NoEmptyEntry ==
    /\ \A key \in DOMAIN FreeSpans_ : FreeSpans_[key] # NULL
    /\ \A k \in 1 .. MaxSpanPages : ~allocateSpan(PageState, k, TRUE).fault
    /\ lastOp.op # "fault"


\* the pages of the span of n pages at addr
PagesOf(addr, n) == {addr \div PAGE_SIZE + j : j \in 0 .. n - 1}

\* the pages the OS has handed to the PageCache
OsPageSet == {OSBasePage + j : j \in 0 .. osPages - 1}

\* C34: with every checked-out span given back once with its own page
\* count, every page obtained from the OS lies in exactly one span, checked
\* out or on a free list, no span holds a page the OS did not hand out, and
\* a Span appears at most once across the FreeSpans_ lists.
C34_PageConservation ==
    LET outOf(p) == {b \in CheckedOut : p \in PagesOf(b.ptr, b.cls)}
        freeOf(p) == {id \in FreeSpanIds :
                        p \in PagesOf(spans[id].PageAddr, spans[id].sizePages)}
        keys == {key \in DOMAIN FreeSpans_ : FreeSpans_[key] # NULL}
    IN  /\ \A p \in OsPageSet :
              Cardinality(outOf(p)) + Cardinality(freeOf(p)) = 1
        /\ \A b \in CheckedOut : PagesOf(b.ptr, b.cls) \subseteq OsPageSet
        /\ \A id \in FreeSpanIds :
              PagesOf(spans[id].PageAddr, spans[id].sizePages) \subseteq OsPageSet
        /\ \A key \in keys :
              LET seq == FreeSpanSeq(key)
              IN  /\ seq # <<>>
                  /\ spans[seq[Len(seq)]].next = NULL
        /\ \A k1, k2 \in keys :
              k1 # k2 => Range(FreeSpanSeq(k1)) \cap Range(FreeSpanSeq(k2)) = {}

\* C34 witness: deallocateSpan has just merged the span given back with its
\* successor, a span is checked out, and two spans or more are on the free
\* lists, one of them the remainder of a split.
C34_Witness ==
    /\ lastOp.op = "deallocateSpan"
    /\ RecordedPages(lastOp.ret) > lastOp.n
    /\ CheckedOut # {}
    /\ Cardinality(FreeSpanIds) >= 2
    /\ \E id \in FreeSpanIds : spans[id].PageAddr \notin DOMAIN SpanMap_

\* C35: every span on the list FreeSpans_[k] has sizePages = k, so a free
\* span recorded in SpanMap_ is on the list of its own page count.
C35_ListKeying ==
    /\ \A key \in DOMAIN FreeSpans_ :
          \A id \in Range(FreeSpanSeq(key)) : spans[id].sizePages = key
    /\ \A a \in DOMAIN SpanMap_ :
          LET id == SpanMap_[a]
          IN  id \in FreeSpanIds
                 => /\ spans[id].sizePages \in DOMAIN FreeSpans_
                    /\ id \in Range(FreeSpanSeq(spans[id].sizePages))

\* C35 witness: deallocateSpan has just merged the span given back with its
\* successor and put it on the list of the sum of the two page counts, and
\* a list holds two spans.
C35_Witness ==
    /\ lastOp.op = "deallocateSpan"
    /\ RecordedPages(lastOp.ret) > lastOp.n
    /\ FreeSpans_[RecordedPages(lastOp.ret)] = SpanMap_[lastOp.ret]
    /\ \E key \in DOMAIN FreeSpans_ : Len(FreeSpanSeq(key)) >= 2


\* the order of the locks: the mutex is held by a thread inside the body of
\* a PageCache function, a thread that waits for a spin lock or for the
\* mutex does not hold the mutex, and a set spin lock belongs to the one
\* thread past the test_and_set of that class
LockOrder ==
    /\ \A t \in Threads :
          /\ mutex_ = t => call[t].pc \in {"span", "fault"}
          /\ call[t].pc \in {"spin", "mutex"} => mutex_ # t
    /\ \A i \in OrderClasses :
          locks_[i] => Cardinality({t \in Threads :
                                      /\ call[t].op \in {"fetchRange", "returnRange"}
                                      /\ call[t].index = i
                                      /\ call[t].pc \notin {"idle", "spin"}}) = 1

\* C36: a thread holds at most the spin lock of its own call, takes the
\* mutex only behind that lock and never waits for a spin lock with the
\* mutex held, and under a fair scheduler every call that began returns.
C36_EveryCallReturns ==
    /\ []LockOrder
    /\ \A t \in Threads : call[t].pc # "idle" ~> call[t].pc = "idle"

\* C36 apart from the null list head of C33: the order of the locks holds,
\* and every call returns or the process has stopped at a read through a
\* null Span pointer.
C36_ReturnsUnlessFault ==
    /\ []LockOrder
    /\ \A t \in Threads :
          call[t].pc # "idle" ~> (call[t].pc = "idle" \/ ~Running)

====
